---- MODULE Spec2Model ----
(***************************************************************************)
(* A model of the campus-assistant chat backend: the POST /chat handler of *)
(* src/unnamed/part_002 (validation chain, sanitisation, the ordered       *)
(* intent cascade, the per-domain analyzers, the reply templates and the   *)
(* response envelope), with the pieces of the simpler handler of           *)
(* src/routes/chat.route.js that differ.                                   *)
(*                                                                         *)
(* Conventions.                                                            *)
(*  - A JavaScript value that may be missing is a record [k, n, s]:        *)
(*    k = "undef" (undefined), "num" (number n), "nan" (NaN) or "str"      *)
(*    (string s).                                                          *)
(*  - Messages and replies are the program's strings; toLowerCase,         *)
(*    includes, trim and replace are computed character by character.      *)
(*  - The glyphs of the reply templates that are not ASCII are written in  *)
(*    ASCII: the rupee sign is "Rs", the em dash "--", the bullet "*", the *)
(*    arrow "->", the chart emojis "[up]" and "[down]", the right arrow    *)
(*    emoji "[flat]", the warning sign "[!]" and the check mark "[ok]".    *)
(*  - Semester scores are fixed-point numbers in hundredths (780 is 7.80); *)
(*    percentages and amounts of money are whole numbers.                  *)
(***************************************************************************)
EXTENDS Integers, Sequences, FiniteSets, TLC

VARIABLES
  DEBUG, \* process.env.NODE_ENV !== 'production', fixed when the process starts
  app,   \* the app the process runs: "secured" (validateChat, then the handler
         \* with sanitisation) or "plain" (app.js with routes/chat.route.js)
  pc,    \* where the request is: "idle", "received", "validated", "responded"
  body,  \* req.body
  errs,  \* the fields validationResult(req) holds an error for
  env,   \* what the handler read from its surroundings: the clock and Math.random
  res,   \* the response sent: res.status(...).json(...)
  posted, \* the body as the client posted it, before the sanitizers rewrote it
  peer,  \* a second request in flight in the same process: its own pc, posted,
         \* body, errs, env and res
  limits \* the rate limiters in front of the router: the clock in minutes, the
         \* stores of apiLimiter and chatLimiter by req.ip, the client of the
         \* request in hand and what became of it

vars == <<DEBUG, app, pc, body, errs, env, res, posted, peer, limits>>

(***************************************************************************)
(* JavaScript values                                                       *)
(***************************************************************************)
Undefined == [k |-> "undef", n |-> 0, s |-> ""]
NaN == [k |-> "nan", n |-> 0, s |-> ""]
Num(n) == [k |-> "num", n |-> n, s |-> ""]
Str(s) == [k |-> "str", n |-> 0, s |-> s]

IsNum(v) == v.k = "num"
IsStr(v) == v.k = "str"

\* ToBoolean: undefined, NaN, 0 and "" are falsy
Truthy(v) ==
  CASE v.k = "num" -> v.n # 0
    [] v.k = "str" -> v.s # ""
    [] OTHER -> FALSE

\* a || b
Or(a, b) == IF Truthy(a) THEN a ELSE b

\* a < c and a >= c for a number literal c: both false on undefined and NaN
Lt(a, c) == IsNum(a) /\ a.n < c
Ge(a, c) == IsNum(a) /\ a.n >= c
Gt(a, c) == IsNum(a) /\ a.n > c

\* `${v}` of a template literal
Show(v) ==
  CASE v.k = "num" -> ToString(v.n)
    [] v.k = "str" -> v.s
    [] v.k = "nan" -> "NaN"
    [] OTHER -> "undefined"

(***************************************************************************)
(* Strings                                                                 *)
(***************************************************************************)
CharAt(s, i) == SubSeq(s, i, i)

\* String.prototype.includes
Includes(s, k) ==
  \E i \in 1..(Len(s) - Len(k) + 1) : SubSeq(s, i, i + Len(k) - 1) = k

UpperCase ==
  {"A", "B", "C", "D", "E", "F", "G", "H", "I", "J", "K", "L", "M", "N", "O", "P",
   "Q", "R", "S", "T", "U", "V", "W", "X", "Y", "Z"}

LowerChar(c) ==
  IF c \notin UpperCase THEN c
  ELSE CASE c = "A" -> "a" [] c = "B" -> "b" [] c = "C" -> "c" [] c = "D" -> "d"
         [] c = "E" -> "e" [] c = "F" -> "f" [] c = "G" -> "g" [] c = "H" -> "h"
         [] c = "I" -> "i" [] c = "J" -> "j" [] c = "K" -> "k" [] c = "L" -> "l"
         [] c = "M" -> "m" [] c = "N" -> "n" [] c = "O" -> "o" [] c = "P" -> "p"
         [] c = "Q" -> "q" [] c = "R" -> "r" [] c = "S" -> "s" [] c = "T" -> "t"
         [] c = "U" -> "u" [] c = "V" -> "v" [] c = "W" -> "w" [] c = "X" -> "x"
         [] c = "Y" -> "y" [] c = "Z" -> "z"

\* recursions over a string split the range in two, so that their depth is
\* the logarithm of its length
RECURSIVE LowerRange(_, _, _)
LowerRange(s, lo, hi) ==
  IF lo > hi THEN ""
  ELSE IF lo = hi THEN LowerChar(CharAt(s, lo))
  ELSE LowerRange(s, lo, (lo + hi) \div 2) \o LowerRange(s, (lo + hi) \div 2 + 1, hi)

\* String.prototype.toLowerCase
toLowerCase(s) == LowerRange(s, 1, Len(s))

\* the characters of s[lo..hi] whose index is not in `dropped`
RECURSIVE Pick(_, _, _, _)
Pick(s, lo, hi, dropped) ==
  IF lo > hi THEN ""
  ELSE IF lo = hi THEN (IF lo \in dropped THEN "" ELSE CharAt(s, lo))
  ELSE Pick(s, lo, (lo + hi) \div 2, dropped)
         \o Pick(s, (lo + hi) \div 2 + 1, hi, dropped)

Least(S) == CHOOSE i \in S : \A j \in S : i <= j

Greatest(S) == CHOOSE i \in S : \A j \in S : i >= j

IsSpace(c) == c \in {" ", "\n", "\t"}

\* \w of a regular expression
IsWordChar(c) ==
  LowerChar(c) \in {"a", "b", "c", "d", "e", "f", "g", "h", "i", "j", "k", "l",
                    "m", "n", "o", "p", "q", "r", "s", "t", "u", "v", "w", "x",
                    "y", "z", "0", "1", "2", "3", "4", "5", "6", "7", "8", "9",
                    "_"}

\* String.prototype.trim, and the validator's .trim()
trim(s) ==
  LET inked == {i \in 1..Len(s) : ~IsSpace(CharAt(s, i))}
  IN IF inked = {} THEN "" ELSE SubSeq(s, Least(inked), Greatest(inked))

\* value.replace(/[<>]/g, '')
StripAngle(s) ==
  Pick(s, 1, Len(s), {i \in 1..Len(s) : CharAt(s, i) \in {"<", ">"}})

\* the index after the match of `pat` (lower case) at i, ignoring case; 0 if none
MatchAt(s, i, pat) ==
  IF i >= 1 /\ i + Len(pat) - 1 <= Len(s)
       /\ LowerChar(CharAt(s, i)) = CharAt(pat, 1)
       /\ toLowerCase(SubSeq(s, i, i + Len(pat) - 1)) = pat
  THEN i + Len(pat) ELSE 0

\* sanitizedMessage.replace(/javascript:/gi, ''): no two matches overlap, as
\* the pattern has "j" at its head only, so every occurrence is a match
StripJavascript(s) ==
  LET pat == "javascript:"
      heads == {j \in 1..Len(s) : MatchAt(s, j, pat) # 0}
  IN IF heads = {} THEN s
     ELSE Pick(s, 1, Len(s),
               {i \in 1..Len(s) : \E j \in heads : j <= i /\ i < j + Len(pat)})

\* the index after the longest run of \w starting at i
WordRunEnd(s, i) ==
  LET stops == {j \in i..Len(s) : ~IsWordChar(CharAt(s, j))}
  IN IF stops = {} THEN Len(s) + 1 ELSE Least(stops)

\* the index after a match of /\son\w+=/i at i; 0 if none
OnAttrAt(s, i) ==
  IF /\ i >= 1
     /\ i + 4 <= Len(s)
     /\ IsSpace(CharAt(s, i))
     /\ toLowerCase(SubSeq(s, i + 1, i + 2)) = "on"
     /\ WordRunEnd(s, i + 3) > i + 3
     /\ WordRunEnd(s, i + 3) <= Len(s)
     /\ CharAt(s, WordRunEnd(s, i + 3)) = "="
  THEN WordRunEnd(s, i + 3) + 1 ELSE 0

\* sanitizedMessage.replace(/\son\w+=/gi, ''): a match holds white space at
\* its head only, so no two matches overlap
StripOnAttr(s) ==
  LET heads == {j \in 1..Len(s) : OnAttrAt(s, j) # 0}
  IN IF heads = {} THEN s
     ELSE Pick(s, 1, Len(s),
               {i \in 1..Len(s) : \E j \in heads : j <= i /\ i < OnAttrAt(s, j)})

\* the first index >= i where `pat` (lower case) matches ignoring case; 0 if none
IndexFrom(s, i, pat) ==
  LET hits == {j \in i..Len(s) : MatchAt(s, j, pat) # 0}
  IN IF i < 1 \/ hits = {} THEN 0 ELSE Least(hits)

\* <script, at a word boundary, with a </script> somewhere after it
ScriptOpensAt(s, i) ==
  /\ MatchAt(s, i, "<script") # 0
  /\ ~(i + 7 <= Len(s) /\ IsWordChar(CharAt(s, i + 7)))
  /\ IndexFrom(s, i + 7, "</script>") # 0

RECURSIVE StripScriptFrom(_, _)
\* /<script\b[^<]*(?:(?!<\/script>)<[^<]*)*<\/script>/gi: each span from an
\* opening <script (at a word boundary) to the next </script> is removed
StripScriptFrom(s, i) ==
  LET opens == {j \in i..Len(s) : ScriptOpensAt(s, j)}
  IN IF opens = {} THEN SubSeq(s, i, Len(s))
     ELSE SubSeq(s, i, Least(opens) - 1)
            \o StripScriptFrom(s, IndexFrom(s, Least(opens) + 7, "</script>") + 9)

StripScript(s) == StripScriptFrom(s, 1)

\* lines.filter(Boolean).join(sep), on a sequence of strings ("" is falsy)
RECURSIVE JoinFrom(_, _, _, _)
JoinFrom(lines, i, sep, first) ==
  IF i > Len(lines) THEN ""
  ELSE IF lines[i] = "" THEN JoinFrom(lines, i + 1, sep, first)
  ELSE (IF first THEN "" ELSE sep) \o lines[i] \o JoinFrom(lines, i + 1, sep, FALSE)

\* parts.join(sep): nothing is filtered
RECURSIVE JoinAllFrom(_, _, _)
JoinAllFrom(parts, i, sep) ==
  IF i > Len(parts) THEN ""
  ELSE (IF i = 1 THEN "" ELSE sep) \o parts[i] \o JoinAllFrom(parts, i + 1, sep)

join(parts, sep) == JoinAllFrom(parts, 1, sep)

formatReply(lines) == JoinFrom(lines, 1, "\n", TRUE)

paragraph(lines) == JoinFrom(lines, 1, " ", TRUE)

(***************************************************************************)
(* Numbers                                                                 *)
(***************************************************************************)
Max(a, b) == IF a >= b THEN a ELSE b

Pad2(n) == IF n < 10 THEN "0" \o ToString(n) ELSE ToString(n)

\* h.toFixed(2) for a score in hundredths
Fixed2(h) ==
  IF h < 0 THEN "-" \o ToString((-h) \div 100) \o "." \o Pad2((-h) % 100)
  ELSE ToString(h \div 100) \o "." \o Pad2(h % 100)

\* n.toFixed(2) for a whole amount of money
MoneyFixed2(n) == ToString(n) \o ".00"

\* Math.ceil(p / q) for q > 0
CeilDiv(p, q) == IF p >= 0 THEN (p + q - 1) \div q ELSE -((-p) \div q)

\* the quotient p / q, q > 0, rounded to the nearest integer, halves up
RoundDiv(p, q) == (2 * p + q) \div (2 * q)

\* the difference without Math.max(0, ...)
neededClassesSigned(held, attended) ==
  IF IsNum(held) /\ IsNum(attended)
  THEN Num(CeilDiv(3 * held.n, 4) - attended.n)
  ELSE NaN

\* Math.max(0, Math.ceil(held * 0.75) - attended); NaN if either is missing
neededClasses(held, attended) ==
  IF IsNum(held) /\ IsNum(attended)
  THEN Num(Max(0, CeilDiv(3 * held.n, 4) - attended.n))
  ELSE NaN

(***************************************************************************)
(* Binary floating point: the sign of (latest - first) - 0.3.              *)
(* A score h/100 is stored as the nearest double. For 2^e <= h/100 <       *)
(* 2^(e+1) the doubles are the multiples of 2^(e-52), so 100 times the     *)
(* stored value is h + n * 2^(e-52) with n = -r or 100 - r for             *)
(* r = (h * 2^(52-e)) mod 100. Errors are counted in units of 2^(-54),     *)
(* the spacing of the doubles around 0.3.                                  *)
(***************************************************************************)
RECURSIVE Pow2Mod100(_)
Pow2Mod100(k) == IF k = 0 THEN 1 ELSE (2 * Pow2Mod100(k - 1)) % 100

RECURSIVE Pow2(_)
Pow2(k) == IF k = 0 THEN 1 ELSE 2 * Pow2(k - 1)

\* the binary exponent e of h/100 for 1 <= h: 2^e <= h/100 < 2^(e+1), as e + 7
RECURSIVE Binade7(_, _)
Binade7(h, e7) == IF 128 * h < 100 * Pow2(e7 + 1) THEN e7 ELSE Binade7(h, e7 + 1)

\* 100 * (double(h/100) - h/100) in units of 2^(-59)
DoubleError(h) ==
  IF h = 0 THEN 0
  ELSE LET e7 == Binade7(h, 0)
           r == (h * Pow2Mod100(59 - e7)) % 100
           n == IF r < 50 THEN -r ELSE 100 - r
       IN n * Pow2(e7)

\* 100 * (double(0.3) - 0.3) = -20 * 2^(-54), and half the spacing of the
\* doubles around 0.3 is 100 * 2^(-55), both in units of 2^(-59)
ThreeTenthsError == -20 * 32

HalfUlpThreeTenths == 100 * 16

\* (latest - first) > 0.3 as the doubles compute it: the exact difference of
\* the two stored values lies above the midpoint between double(0.3) and the
\* next double (a tie rounds to the even neighbour, which is the upper one)
DiffAboveThreeTenths(first, latest) ==
  \/ latest - first > 30
  \/ /\ latest - first = 30
     /\ DoubleError(latest) - DoubleError(first)
          >= ThreeTenthsError + HalfUlpThreeTenths

(***************************************************************************)
(* Time. An instant is a number of hours since 2025-06-01T00:00 (a Sunday) *)
(* and the server's time zone is UTC; a date string is "2025-06-DD".       *)
(***************************************************************************)
HoursPerDay == 24

DigitVal(c) ==
  CASE c = "0" -> 0 [] c = "1" -> 1 [] c = "2" -> 2 [] c = "3" -> 3
    [] c = "4" -> 4 [] c = "5" -> 5 [] c = "6" -> 6 [] c = "7" -> 7
    [] c = "8" -> 8 [] c = "9" -> 9 [] OTHER -> -1

\* new Date(s).getTime(): NaN for a string that is no date
DateParse(s) ==
  IF /\ Len(s) = 10
     /\ SubSeq(s, 1, 8) = "2025-06-"
     /\ DigitVal(CharAt(s, 9)) >= 0
     /\ DigitVal(CharAt(s, 10)) >= 0
     /\ 10 * DigitVal(CharAt(s, 9)) + DigitVal(CharAt(s, 10)) \in 1..30
  THEN Num(HoursPerDay * (10 * DigitVal(CharAt(s, 9)) + DigitVal(CharAt(s, 10)) - 1))
  ELSE NaN

\* the date string of day d of the month
IsoDate(d) == "2025-06-" \o Pad2(d)

\* now.getDay(): 0 is Sunday
getDay(now) == (now \div HoursPerDay) % 7

\* now.getHours()
getHours(now) == now % HoursPerDay

\* today.setHours(0, 0, 0, 0)
Midnight(now) == now - (now % HoursPerDay)

\* Math.ceil((new Date(date) - now) / (1000 * 60 * 60 * 24))
daysUntil(date, now) ==
  IF IsNum(DateParse(date))
  THEN Num(CeilDiv(DateParse(date).n - now, HoursPerDay))
  ELSE NaN

DAYS == <<"Monday", "Tuesday", "Wednesday", "Thursday", "Friday", "Saturday", "Sunday">>

getDayName(index) ==
  IF index \in 0..6 THEN DAYS[index + 1] ELSE "Day " \o ToString(index + 1)

(***************************************************************************)
(* The result of a branch of the handler: the reply, whether the branch    *)
(* returned early with res.json({ intent, reply }), and whether it threw.  *)
(***************************************************************************)
Reply(text) == [reply |-> text, early |-> FALSE, throws |-> FALSE, error |-> ""]

EarlyReply(text) == [reply |-> text, early |-> TRUE, throws |-> FALSE, error |-> ""]

Throw(message) == [reply |-> "", early |-> FALSE, throws |-> TRUE, error |-> message]

\* a helper that keeps the placeholder name to itself
addressMaybeShy(text, userName, rnd) ==
  IF ~(rnd < 35) \/ userName = "" \/ userName = "there" THEN text
  ELSE userName \o ", " \o text

\* Math.random() < 0.35, the draw in hundredths
addressMaybe(text, userName, rnd) ==
  IF ~(rnd < 35) \/ userName = "" THEN text ELSE userName \o ", " \o text

\* the stable sort, by ascending key, of a sequence of records with a field
\* `key`: the first least element, then the rest
RECURSIVE SortByKey(_)
SortByKey(seq) ==
  IF seq = <<>> THEN <<>>
  ELSE LET i == CHOOSE j \in 1..Len(seq) :
                  /\ \A k \in 1..Len(seq) : seq[j].key <= seq[k].key
                  /\ \A k \in 1..(j - 1) : seq[k].key > seq[j].key
       IN <<seq[i]>> \o SortByKey(SubSeq(seq, 1, i - 1) \o SubSeq(seq, i + 1, Len(seq)))

\* `s` for a count above one
Plural(n, suffix) == IF n > 1 THEN suffix ELSE ""

(***************************************************************************)
(* The keyword predicates of the cascade, on lowerMessage                  *)
(***************************************************************************)
IncludesAny(m, keywords) == \E k \in keywords : Includes(m, k)

isNameQuery(m) ==
  IncludesAny(m, {"what is my name", "who am i", "do you know my name",
                  "what's my name", "whats my name"})

isExpenseMonthly(m) ==
  Includes(m, "this month") /\ (Includes(m, "spend") \/ Includes(m, "expense"))

isExpenseInsights(m) ==
  IncludesAny(m, {"expense", "spend", "spent", "money", "budget", "cost",
                  "expensive", "saving"})

isAttendance(m) ==
  IncludesAny(m, {"attendance", "present", "absent", "percentage"})

isAcademic(m) ==
  IncludesAny(m, {"cgpa", "gpa", "grade", "sgpa", "semester", "marks",
                  "performance", "result", "academic", "progress",
                  "improvement", "trend"})

isAssignment(m) ==
  IncludesAny(m, {"assignment", "homework", "deadline", "due", "project"})

isCalendar(m) ==
  IncludesAny(m, {"calendar", "event", "exam", "holiday", "important date",
                  "meeting"})

isBusiestDay(m) ==
  IncludesAny(m, {"busiest day", "most busy", "which day is busiest",
                  "what is my busiest day", "when am i busiest"})

isWorkload(m) ==
  IncludesAny(m, {"busy", "packed", "workload", "work load", "how busy",
                  "how packed", "am i busy", "am i too busy", "am i packed",
                  "is my week busy", "is my week packed", "overall load"})

isTimetable(m) ==
  \/ IncludesAny(m, {"class", "lecture", "timetable", "schedule"})
  \/ IncludesAny(m, {"tomorrow", "today", "monday", "tuesday", "wednesday",
                     "thursday", "friday", "saturday", "sunday"})
  \/ IncludesAny(m, {"free day", "off day", "day off"})
  \/ IncludesAny(m, {"week", "weekly"})
  \/ isWorkload(m)
  \/ isBusiestDay(m)

isGreeting(m, sanitizedMessage) ==
  \/ IncludesAny(m, {"hi", "hello", "hey"})
  \/ trim(sanitizedMessage) = ""

isGratitude(m) == IncludesAny(m, {"thank", "thanks", "appreciate"})

(***************************************************************************)
(* The branches of the handler. c is the handler's scope: lowerMessage,    *)
(* sanitizedMessage, userName, the destructured bundle, now, the clock     *)
(* reading of getFutureDates (today) and the draw of Math.random (rnd).    *)
(***************************************************************************)
\* a name reply that goes through the personalization helper
nameQueryAddressed(c) ==
  Reply(addressMaybe("Your name is " \o c.userName \o ". How can I help you today?",
                     c.userName, c.rnd))

nameQuery(c) == Reply("Your name is " \o c.userName \o ". How can I help you today?")

expenseMonthly(c) ==
  IF ~IsNum(c.expenses.thisMonth)
  THEN Reply(addressMaybe("I don't have any expense records for this month yet.",
                          c.userName, c.rnd))
  ELSE LET spending == MoneyFixed2(c.expenses.thisMonth.n)
       IN IF c.expenses.thisMonth.n > 10000
          THEN Reply(paragraph(<<
                 "You've spent Rs" \o spending \o " this month, which is on the higher side.",
                 "Might be worth reviewing where the money's going -- especially discretionary spending.">>))
          ELSE IF c.expenses.thisMonth.n > 5000
          THEN Reply(paragraph(<<
                 "So far this month, you've spent Rs" \o spending \o ".",
                 "That's within a moderate range -- nothing alarming.">>))
          ELSE Reply(paragraph(<<
                 "Your spending this month is at Rs" \o spending \o ".",
                 "Looks like you're keeping things under control.">>))

\* Object.keys(expenses).length
expenseKeys(e) ==
  (IF e.thisMonth.k = "undef" THEN 0 ELSE 1) + (IF e.total.k = "undef" THEN 0 ELSE 1)
    + (IF e.categories.present THEN 1 ELSE 0)

\* ((amt / total) * 100).toFixed(1), the share rounded to the nearest tenth
sharePercent(amt, total) ==
  IF total > 0
  THEN ToString(RoundDiv(1000 * amt, total) \div 10) \o "."
         \o ToString(RoundDiv(1000 * amt, total) % 10)
  ELSE "0"

\* a sort with the comparator the other way round: a[1] - b[1]
sortedCategoriesAscending(categories) ==
  LET keyed == [i \in 1..Len(categories) |->
                  [key |-> categories[i].amt, cat |-> categories[i].cat,
                   amt |-> categories[i].amt]]
      sorted == SortByKey(keyed)
  IN SubSeq(sorted, 1, IF Len(sorted) < 2 THEN Len(sorted) ELSE 2)

\* Object.entries(categories).sort((a, b) => b[1] - a[1]).slice(0, 2)
sortedCategories(categories) ==
  LET keyed == [i \in 1..Len(categories) |->
                  [key |-> -categories[i].amt, cat |-> categories[i].cat,
                   amt |-> categories[i].amt]]
      sorted == SortByKey(keyed)
  IN SubSeq(sorted, 1, IF Len(sorted) < 2 THEN Len(sorted) ELSE 2)

expenseInsights(c) ==
  IF expenseKeys(c.expenses) = 0
  THEN Reply(addressMaybe(
         "I don't have any expense records yet. Start tracking your spending and I can help you manage your budget.",
         c.userName, c.rnd))
  ELSE LET total == Or(c.expenses.total, Num(0)).n
           thisMonth == Or(c.expenses.thisMonth, Num(0)).n
           top == sortedCategories(c.expenses.categories.list)
           parts ==
             <<"Overall, you've spent Rs" \o MoneyFixed2(total)
                 \o " across all time, with Rs" \o MoneyFixed2(thisMonth)
                 \o " so far this month.">>
             \o (IF thisMonth > 10000
                 THEN <<"This month's spending is a bit elevated -- worth keeping an eye on.">>
                 ELSE IF thisMonth > 5000
                 THEN <<"Monthly spending is within a reasonable range.">>
                 ELSE IF thisMonth > 0
                 THEN <<"You're spending at a comfortable pace right now.">>
                 ELSE <<>>)
             \o (IF Len(top) > 0
                 THEN <<"Your main spending areas:">>
                        \o [i \in 1..Len(top) |->
                              "* " \o top[i].cat \o ": Rs" \o MoneyFixed2(top[i].amt)
                                \o " (" \o sharePercent(top[i].amt, total) \o "% of total)"]
                 ELSE <<>>)
       IN Reply(addressMaybe(join(parts, " "), c.userName, c.rnd))

isPerSubject(m) ==
  IncludesAny(m, {"per subject", "by subject", "each subject", "subject wise",
                  "subject-wise", "subject breakdown", "breakdown by subject"})

\* /subject.*low|low.*subject/ and /subject.*below|below.*subject/ ("." does
\* not match a line break, and a message holds none after trim on one line)
MatchesInOrder(m, a, b) ==
  \E i \in 1..Len(m) :
    /\ MatchAt(m, i, a) # 0
    /\ IndexFrom(m, MatchAt(m, i, a), b) # 0

isLowestSubject(m) ==
  \/ Includes(m, "which subject")
  \/ Includes(m, "what subject")
  \/ MatchesInOrder(m, "subject", "low") \/ MatchesInOrder(m, "low", "subject")
  \/ MatchesInOrder(m, "subject", "below") \/ MatchesInOrder(m, "below", "subject")

perSubjectAttendance(c) ==
  LET subjects == c.attendance.subjects
      keyed == [i \in 1..Len(subjects) |->
                  [key |-> Or(subjects[i].percentage, Num(0)).n, d |-> subjects[i]]]
      sortedSubjects == SortByKey(keyed)
      Line(e) ==
        LET subPercent == Or(e.d.percentage, Num(0))
            subAttended == Or(e.d.attended, Num(0))
            subHeld == Or(e.d.held, Num(0))
            indicator == IF subPercent.n < 75 THEN "[!]"
                         ELSE IF subPercent.n >= 85 THEN "[ok]" ELSE ""
        IN indicator \o " " \o e.d.name \o ": " \o Show(subPercent) \o "% ("
             \o Show(subAttended) \o "/" \o Show(subHeld) \o ")"
  IN IF Len(subjects) = 0
     THEN Reply(addressMaybe("No subject-wise attendance data available.",
                             c.userName, c.rnd))
     ELSE Reply(formatReply(
            <<"Here's your attendance by subject:">>
            \o [i \in 1..Len(sortedSubjects) |-> Line(sortedSubjects[i])]
            \o <<"\nOverall: " \o Show(c.attendance.percentage) \o "% ("
                   \o Show(c.attendance.totalAttended) \o "/"
                   \o Show(c.attendance.totalHeld) \o ")">>))

\* the forEach over subjectEntries: [name, percent] of the lowest so far
RECURSIVE lowestFrom(_, _, _)
lowestFrom(subjects, i, best) ==
  IF i > Len(subjects) THEN best
  ELSE LET percent == Or(subjects[i].percentage, Num(0)).n
       IN IF percent < best.percent /\ Gt(subjects[i].held, 0)
          THEN lowestFrom(subjects, i + 1,
                          [found |-> TRUE, percent |-> percent, d |-> subjects[i]])
          ELSE lowestFrom(subjects, i + 1, best)

lowestSubjectAttendance(c) ==
  LET subjects == c.attendance.subjects
      low == IF Len(subjects) = 0
             THEN [found |-> FALSE, percent |-> 101]
             ELSE lowestFrom(subjects, 1,
                             [found |-> FALSE, percent |-> 101, d |-> subjects[1]])
  IN IF Len(subjects) = 0
     THEN Reply(addressMaybe("No subject-wise data available.", c.userName, c.rnd))
     ELSE IF low.found /\ low.percent < 75
     THEN Reply(addressMaybe(
            "Your lowest attendance is in " \o low.d.name \o " at "
              \o ToString(low.percent) \o "% (" \o Show(low.d.attended) \o "/"
              \o Show(low.d.held) \o "). You need to attend "
              \o Show(neededClasses(low.d.held, low.d.attended))
              \o " more classes to reach 75%.",
            c.userName, c.rnd))
     ELSE IF low.found
     THEN Reply(addressMaybe(
            "Your lowest attendance is in " \o low.d.name \o " at "
              \o ToString(low.percent) \o "%, which is still above 75%.",
            c.userName, c.rnd))
     ELSE Reply(addressMaybe("All your subjects are above 75% attendance.",
                             c.userName, c.rnd))

overallAttendance(c) ==
  LET percentage == c.attendance.percentage
      attended == c.attendance.totalAttended
      held == c.attendance.totalHeld
      needed == neededClasses(held, attended)
      parts ==
        <<"Your attendance is at " \o Show(percentage) \o "% (" \o Show(attended)
            \o " out of " \o Show(held) \o " classes).">>
        \o (IF Lt(percentage, 75)
            THEN <<"This is below the 75% threshold -- something to be mindful of.">>
                   \o (IF Gt(needed, 0)
                       THEN <<"You'd need to attend " \o Show(needed)
                                \o " more classes to reach 75%.">>
                       ELSE <<>>)
                   \o (IF Len(c.attendance.subjects) > 0
                       THEN <<"Want to see the breakdown by subject? Just ask.">>
                       ELSE <<>>)
            ELSE IF Lt(percentage, 85)
            THEN <<"It's acceptable, though there's room to improve.">>
            ELSE <<"You're maintaining good attendance -- that's solid.">>)
  IN Reply(addressMaybe(join(parts, " "), c.userName, c.rnd))

\* a branch that looks for the lowest-subject phrases first
attendanceInsightsLowestFirst(c) ==
  IF IsNum(c.attendance.totalHeld) /\ c.attendance.totalHeld.n = 0
  THEN EarlyReply(addressMaybe(
         "No attendance records yet. Once classes start, I can help you track it.",
         c.userName, c.rnd))
  ELSE IF isLowestSubject(c.lowerMessage) THEN lowestSubjectAttendance(c)
  ELSE IF isPerSubject(c.lowerMessage) THEN perSubjectAttendance(c)
  ELSE overallAttendance(c)

attendanceInsights(c) ==
  IF IsNum(c.attendance.totalHeld) /\ c.attendance.totalHeld.n = 0
  THEN EarlyReply(addressMaybe(
         "No attendance records yet. Once classes start, I can help you track it.",
         c.userName, c.rnd))
  ELSE IF isPerSubject(c.lowerMessage) THEN perSubjectAttendance(c)
  ELSE IF isLowestSubject(c.lowerMessage) THEN lowestSubjectAttendance(c)
  ELSE overallAttendance(c)

\* sem.sgpa || sem.gpa || sem.score
score(sem) == Or(Or(sem.sgpa, sem.gpa), sem.score)

\* sem.semester || sem.name || `Semester ${index}`
semesterName(sem, index) ==
  Show(Or(Or(sem.semester, sem.name), Str("Semester " \o ToString(index))))

ToFixedOfUndefined == "Cannot read properties of undefined (reading 'toFixed')"

RECURSIVE sumScores(_, _)
\* cgpa.reduce((sum, sem) => sum + score, 0) from element i on, in hundredths
sumScores(cgpa, i) ==
  IF i > Len(cgpa) THEN 0 ELSE score(cgpa[i]).n + sumScores(cgpa, i + 1)

allScored(cgpa) == \A i \in 1..Len(cgpa) : IsNum(score(cgpa[i]))

\* (total / cgpa.length).toFixed(2); the quotient is rounded to the nearest
\* hundredth, halves up
cgpaAvg(cgpa) ==
  IF allScored(cgpa) THEN Fixed2(RoundDiv(sumScores(cgpa, 1), Len(cgpa))) ELSE "NaN"

isListGrades(m) ==
  IncludesAny(m, {"all", "semester wise", "semester-wise", "each semester",
                  "breakdown", "list", "show my grades", "show grades"})

isTrend(m) == IncludesAny(m, {"trend", "progress", "improvement", "change"})

listGrades(c) ==
  LET cgpa == c.cgpa
  IN IF ~allScored(cgpa) THEN Throw(ToFixedOfUndefined)
     ELSE Reply(formatReply(
            <<"You have " \o ToString(Len(cgpa)) \o " semester"
                \o Plural(Len(cgpa), "s") \o " of data:">>
            \o [i \in 1..Len(cgpa) |->
                  "  " \o ToString(i) \o ". " \o semesterName(cgpa[i], i) \o ": "
                    \o Fixed2(score(cgpa[i]).n)]
            \o (IF Len(cgpa) > 1
                THEN <<"\nOverall CGPA: " \o cgpaAvg(cgpa)>>
                ELSE <<>>)))

\* the trend of difference = sgpa - first; every comparison is false on NaN
trendBand(first, sgpa) ==
  IF ~(IsNum(first) /\ IsNum(sgpa)) THEN "[flat] stable"
  ELSE IF DiffAboveThreeTenths(first.n, sgpa.n) THEN "[up] strong improvement"
  ELSE IF sgpa.n > first.n THEN "[up] slight improvement"
  ELSE IF DiffAboveThreeTenths(sgpa.n, first.n) THEN "[down] significant drop"
  ELSE IF sgpa.n < first.n THEN "[down] slight decline"
  ELSE "[flat] stable"

trendAnalysis(c) ==
  LET cgpa == c.cgpa
      first == score(cgpa[1])
      sgpa == score(cgpa[Len(cgpa)])
  IN IF Len(cgpa) > 1
     THEN IF \/ ~IsNum(first) \/ ~IsNum(sgpa)
             \/ (Len(cgpa) <= 4 /\ ~allScored(cgpa))
          THEN Throw(ToFixedOfUndefined)
          ELSE Reply(addressMaybe(join(
                 <<"Over " \o ToString(Len(cgpa)) \o " semesters, your grades have shown "
                     \o trendBand(first, sgpa) \o ".",
                   "Started at " \o Fixed2(first.n) \o " -> now at " \o Fixed2(sgpa.n)
                     \o " (" \o (IF sgpa.n > first.n THEN "+" ELSE "")
                     \o Fixed2(sgpa.n - first.n) \o ").">>
                 \o (IF Len(cgpa) <= 4
                     THEN <<"Semester progression: "
                              \o join([i \in 1..Len(cgpa) |-> Fixed2(score(cgpa[i]).n)],
                                      " -> ")>>
                     ELSE <<>>),
                 " "), c.userName, c.rnd))
     ELSE IF ~IsNum(first) THEN Throw(ToFixedOfUndefined)
     ELSE Reply(addressMaybe(
            "Your current SGPA is " \o Fixed2(first.n)
              \o ". Add more semesters to see trends.",
            c.userName, c.rnd))

latestGrade(c) ==
  LET cgpa == c.cgpa
      latest == cgpa[Len(cgpa)]
      sgpa == score(latest)
      name == semesterName(latest, Len(cgpa))
  IN IF ~IsNum(sgpa) THEN Throw(ToFixedOfUndefined)
     ELSE IF Len(cgpa) = 1
     THEN Reply(addressMaybe(
            "Your SGPA for " \o name \o " is " \o Fixed2(sgpa.n) \o ".",
            c.userName, c.rnd))
     ELSE Reply(paragraph(<<
            addressMaybe("Your latest SGPA (" \o name \o ") is " \o Fixed2(sgpa.n) \o ".",
                         c.userName, c.rnd),
            "Your overall CGPA across " \o ToString(Len(cgpa)) \o " semesters is "
              \o cgpaAvg(cgpa) \o ".",
            "Want to see all semesters or grade trends? Just ask.">>))

\* a branch without the guard on the empty list: the latest semester of an empty
\* list is undefined, and reading its score throws
academicInsightsUnguarded(c) ==
  IF isListGrades(c.lowerMessage)
  THEN IF Len(c.cgpa) = 0 THEN Reply("You have 0 semester of data:") ELSE listGrades(c)
  ELSE IF Len(c.cgpa) = 0
  THEN Throw("Cannot read properties of undefined (reading 'sgpa')")
  ELSE IF isTrend(c.lowerMessage) THEN trendAnalysis(c)
  ELSE latestGrade(c)

academicInsights(c) ==
  IF Len(c.cgpa) = 0
  THEN Reply(addressMaybe(
         "No academic records yet. Add your semester grades and I can track your progress.",
         c.userName, c.rnd))
  ELSE IF isListGrades(c.lowerMessage) THEN listGrades(c)
  ELSE IF isTrend(c.lowerMessage) THEN trendAnalysis(c)
  ELSE latestGrade(c)

\* the characters of keys in code unit order
Alphabet == " -0123456789:ABCDEFGHIJKLMNOPQRSTUVWXYZ_abcdefghijklmnopqrstuvwxyz"

CharCode(ch) ==
  IF \E i \in 1..Len(Alphabet) : CharAt(Alphabet, i) = ch
  THEN CHOOSE i \in 1..Len(Alphabet) : CharAt(Alphabet, i) = ch
  ELSE 0

RECURSIVE StrLessFrom(_, _, _)
StrLessFrom(a, b, i) ==
  IF i > Len(b) THEN FALSE
  ELSE IF i > Len(a) THEN TRUE
  ELSE IF CharCode(CharAt(a, i)) # CharCode(CharAt(b, i))
  THEN CharCode(CharAt(a, i)) < CharCode(CharAt(b, i))
  ELSE StrLessFrom(a, b, i + 1)

\* a < b for strings, the order of Array.prototype.sort() without a comparator
StrLess(a, b) == StrLessFrom(a, b, 1)

RECURSIVE sortDates(_)
\* Object.keys(assignments).sort(): the keys are distinct
sortDates(dates) ==
  IF dates = <<>> THEN <<>>
  ELSE LET i == CHOOSE j \in 1..Len(dates) :
                  \A k \in 1..Len(dates) : k = j \/ StrLess(dates[j], dates[k])
       IN <<dates[i]>> \o sortDates(SubSeq(dates, 1, i - 1) \o SubSeq(dates, i + 1, Len(dates)))

RECURSIVE sumCounts(_, _)
\* Object.values(assignments).reduce((sum, count) => sum + (Number(count) || 0), 0)
sumCounts(assignments, i) ==
  IF i > Len(assignments) THEN 0
  ELSE (IF IsNum(assignments[i].count) THEN assignments[i].count.n ELSE 0)
         + sumCounts(assignments, i + 1)

assignmentCount(assignments) == sumCounts(assignments, 1)

\* assignments[date]
countOn(assignments, date) ==
  (CHOOSE e \in {assignments[i] : i \in 1..Len(assignments)} : e.date = date).count

\* a window that opens tomorrow: daysUntil > 0 && daysUntil <= 7
RECURSIVE weekDatesAfterToday(_, _, _)
weekDatesAfterToday(dates, i, now) ==
  IF i > Len(dates) THEN <<>>
  ELSE (IF Gt(daysUntil(dates[i], now), 0) /\ ~Gt(daysUntil(dates[i], now), 7)
        THEN <<dates[i]>> ELSE <<>>)
         \o weekDatesAfterToday(dates, i + 1, now)

\* the elements of seq that satisfy the test, in order
RECURSIVE weekDates(_, _, _)
weekDates(dates, i, now) ==
  IF i > Len(dates) THEN <<>>
  ELSE (IF Ge(daysUntil(dates[i], now), 0) /\ ~Gt(daysUntil(dates[i], now), 7)
        THEN <<dates[i]>> ELSE <<>>)
         \o weekDates(dates, i + 1, now)

assignmentPlanning(c) ==
  LET assignments == c.assignments
      count == assignmentCount(assignments)
      sortedDates == sortDates([i \in 1..Len(assignments) |-> assignments[i].date])
      week == weekDates(sortedDates, 1, c.now)
      nextDate == sortedDates[1]
      nextCount == countOn(assignments, nextDate)
  IN IF count = 0
     THEN EarlyReply(addressMaybe("No pending assignments at the moment.",
                                  c.userName, c.rnd))
     ELSE IF Includes(c.lowerMessage, "week") \/ Includes(c.lowerMessage, "this week")
     THEN IF Len(week) > 0
          THEN Reply(addressMaybe(join(
                 <<"Here's what's due this week:">>
                 \o [i \in 1..Len(week) |->
                       "* " \o week[i] \o ": " \o Show(countOn(assignments, week[i]))
                         \o " assignment"
                         \o (IF Gt(countOn(assignments, week[i]), 1) THEN "s" ELSE "")
                         \o " (in " \o Show(daysUntil(week[i], c.now)) \o " days)"],
                 " "), c.userName, c.rnd))
          ELSE Reply(addressMaybe("Nothing due this week -- a good time to get ahead.",
                                  c.userName, c.rnd))
     ELSE IF Includes(c.lowerMessage, "next") \/ Includes(c.lowerMessage, "upcoming")
     THEN Reply(addressMaybe(
            "Your next deadline is " \o nextDate \o " -- " \o Show(nextCount)
              \o " assignment" \o (IF Gt(nextCount, 1) THEN "s" ELSE "")
              \o " due in " \o Show(daysUntil(nextDate, c.now)) \o " days.",
            c.userName, c.rnd))
     ELSE Reply(addressMaybe(
            "You have " \o ToString(count) \o " pending assignment" \o Plural(count, "s")
              \o ". The nearest is on " \o nextDate \o " (" \o Show(nextCount)
              \o " assignment" \o (IF Gt(nextCount, 1) THEN "s" ELSE "") \o ", "
              \o Show(daysUntil(nextDate, c.now)) \o " days).",
            c.userName, c.rnd))

RECURSIVE futureFilter(_, _, _)
\* the filter of getFutureDates: a date, a valid one, not before today
futureFilter(items, i, today) ==
  IF i > Len(items) THEN <<>>
  ELSE (IF /\ Truthy(items[i].date)
           /\ IsNum(DateParse(items[i].date.s))
           /\ DateParse(items[i].date.s).n >= Midnight(today)
        THEN <<items[i]>> ELSE <<>>)
         \o futureFilter(items, i + 1, today)

\* getFutureDates(items), with the clock reading it takes itself
getFutureDates(items, today) ==
  LET kept == futureFilter(items, 1, today)
      keyed == [i \in 1..Len(kept) |->
                  [key |-> DateParse(kept[i].date.s).n, date |-> kept[i].date,
                   categoryName |-> kept[i].categoryName]]
  IN SortByKey(keyed)

\* the marks whose category name includes one of the words, in order
RECURSIVE categoryFilter(_, _, _)
categoryFilter(marks, i, words) ==
  IF i > Len(marks) THEN <<>>
  ELSE (IF IncludesAny(toLowerCase(Or(marks[i].categoryName, Str("")).s), words)
        THEN <<marks[i]>> ELSE <<>>)
         \o categoryFilter(marks, i + 1, words)

calendarManagement(c) ==
  LET futureDates == getFutureDates(c.calendarMarks, c.today)
      holidays == categoryFilter(futureDates, 1, {"holiday", "break", "vacation"})
      exams == categoryFilter(futureDates, 1, {"exam", "test"})
      Days(d) == daysUntil(d.date.s, c.now)
  IN IF Len(c.calendarMarks) = 0
     THEN EarlyReply(addressMaybe("Your calendar is clear -- no dates marked yet.",
                                  c.userName, c.rnd))
     ELSE IF Includes(c.lowerMessage, "holiday")
     THEN IF Len(holidays) = 0
          THEN Reply(addressMaybe("No upcoming holidays scheduled.", c.userName, c.rnd))
          ELSE Reply(addressMaybe(
                 "Your next holiday is on " \o holidays[1].date.s \o " -- "
                   \o Show(Days(holidays[1])) \o " day"
                   \o (IF Days(holidays[1]) # Num(1) THEN "s" ELSE "") \o " to go.",
                 c.userName, c.rnd))
     ELSE IF Includes(c.lowerMessage, "exam")
     THEN IF Len(exams) = 0
          THEN Reply(addressMaybe("No upcoming exams in your calendar.",
                                  c.userName, c.rnd))
          ELSE Reply(addressMaybe(
                 "Your next exam is on " \o exams[1].date.s \o " -- "
                   \o Show(Days(exams[1])) \o " day"
                   \o (IF Days(exams[1]) # Num(1) THEN "s" ELSE "") \o " left.",
                 c.userName, c.rnd))
     ELSE IF Includes(c.lowerMessage, "next") \/ Includes(c.lowerMessage, "upcoming")
     THEN IF Len(futureDates) = 0
          THEN Reply(addressMaybe("No upcoming dates in your calendar.",
                                  c.userName, c.rnd))
          ELSE Reply(addressMaybe(
                 "Your next marked date is " \o futureDates[1].date.s \o " ("
                   \o Show(futureDates[1].categoryName) \o ") -- in "
                   \o Show(Days(futureDates[1])) \o " days.",
                 c.userName, c.rnd))
     ELSE IF Len(futureDates) = 0
     THEN Reply(addressMaybe("No upcoming dates in your calendar.", c.userName, c.rnd))
     ELSE Reply(formatReply(
            <<"You have " \o ToString(Len(futureDates)) \o " upcoming date"
                \o Plural(Len(futureDates), "s") \o ":">>
            \o [i \in 1..Len(futureDates) |->
                  "  " \o ToString(i) \o ". " \o futureDates[i].date.s \o " -- "
                    \o Show(futureDates[i].categoryName) \o " (in "
                    \o Show(Days(futureDates[i])) \o " days)"]))

RECURSIVE IndexOfChar(_, _, _)
\* the first index >= i of character ch in s; Len(s) + 1 if none
IndexOfChar(s, i, ch) ==
  IF i > Len(s) \/ CharAt(s, i) = ch THEN i ELSE IndexOfChar(s, i + 1, ch)

\* a class entry with its "HH:MM-HH:MM" time split into startTime and endTime
normalizeClassTime(cls) ==
  IF Truthy(cls.startTime) /\ Truthy(cls.endTime) THEN cls
  ELSE IF Truthy(cls.time) /\ Includes(cls.time.s, "-")
  THEN LET dash == IndexOfChar(cls.time.s, 1, "-")
           stop == IndexOfChar(cls.time.s, dash + 1, "-")
       IN [cls EXCEPT !.startTime = Str(trim(SubSeq(cls.time.s, 1, dash - 1))),
                      !.endTime = Str(trim(SubSeq(cls.time.s, dash + 1, stop - 1)))]
  ELSE cls

\* timetable[`day_${dayIndex}`] || [], each entry normalized
getClassesForDay(timetable, dayIndex) ==
  [i \in 1..Len(timetable[dayIndex]) |-> normalizeClassTime(timetable[dayIndex][i])]

\* day: null
NullDay == -1

RECURSIVE weeklyLoopBusyDays(_, _, _)
\* a loop that takes a day to have classes when it has more than one
weeklyLoopBusyDays(timetable, i, analysis) ==
  IF i >= 7 THEN analysis
  ELSE LET count == Len(getClassesForDay(timetable, i))
       IN weeklyLoopBusyDays(timetable, i + 1,
            [busiestDay |->
               IF count > analysis.busiestDay.count
               THEN [day |-> i, count |-> count] ELSE analysis.busiestDay,
             lightestDay |->
               IF (analysis.lightestDay.infinite \/ count < analysis.lightestDay.count)
                    /\ count > 0
               THEN [day |-> i, count |-> count, infinite |-> FALSE]
               ELSE analysis.lightestDay,
             totalClasses |-> analysis.totalClasses + count,
             daysWithClasses |-> analysis.daysWithClasses + (IF count > 1 THEN 1 ELSE 0)])

RECURSIVE weeklyLoopLastWins(_, _, _)
\* a loop that lets a later day take the place of an earlier one of the same
\* count
weeklyLoopLastWins(timetable, i, analysis) ==
  IF i >= 7 THEN analysis
  ELSE LET count == Len(getClassesForDay(timetable, i))
       IN weeklyLoopLastWins(timetable, i + 1,
            [busiestDay |->
               IF count >= analysis.busiestDay.count /\ count > 0
               THEN [day |-> i, count |-> count] ELSE analysis.busiestDay,
             lightestDay |->
               IF (analysis.lightestDay.infinite \/ count <= analysis.lightestDay.count)
                    /\ count > 0
               THEN [day |-> i, count |-> count, infinite |-> FALSE]
               ELSE analysis.lightestDay,
             totalClasses |-> analysis.totalClasses + count,
             daysWithClasses |-> analysis.daysWithClasses + (IF count > 0 THEN 1 ELSE 0)])

RECURSIVE weeklyLoop(_, _, _)
\* the body of `for (let i = 0; i < 7; i++)` from day i on; lightestDay.count
\* is Infinity while lightestDay.infinite
weeklyLoop(timetable, i, analysis) ==
  IF i >= 7 THEN analysis
  ELSE LET count == Len(getClassesForDay(timetable, i))
       IN weeklyLoop(timetable, i + 1,
            [busiestDay |->
               IF count > analysis.busiestDay.count
               THEN [day |-> i, count |-> count] ELSE analysis.busiestDay,
             lightestDay |->
               IF (analysis.lightestDay.infinite \/ count < analysis.lightestDay.count)
                    /\ count > 0
               THEN [day |-> i, count |-> count, infinite |-> FALSE]
               ELSE analysis.lightestDay,
             totalClasses |-> analysis.totalClasses + count,
             daysWithClasses |-> analysis.daysWithClasses + (IF count > 0 THEN 1 ELSE 0)])

analyzeWeeklyPattern(timetable) ==
  LET analysis == weeklyLoop(timetable, 0,
                    [busiestDay |-> [day |-> NullDay, count |-> 0],
                     lightestDay |-> [day |-> NullDay, count |-> 0, infinite |-> TRUE],
                     totalClasses |-> 0,
                     daysWithClasses |-> 0])
  IN IF analysis.lightestDay.infinite
     THEN [analysis EXCEPT !.lightestDay = [day |-> NullDay, count |-> 0, infinite |-> FALSE]]
     ELSE analysis

\* jsTodayIndex === 0 ? 6 : jsTodayIndex - 1
normalizedTodayIndex(now) == IF getDay(now) = 0 THEN 6 ELSE getDay(now) - 1

dayMap == <<"monday", "tuesday", "wednesday", "thursday", "friday", "saturday", "sunday">>

\* the first day of dayMap the message names; NullDay if none
specificDay(m) ==
  IF \E i \in 1..7 : Includes(m, dayMap[i])
  THEN (CHOOSE i \in 1..7 :
          Includes(m, dayMap[i]) /\ \A j \in 1..(i - 1) : ~Includes(m, dayMap[j])) - 1
  ELSE NullDay

\* classes.map(c => c.name || c.subject || 'class').join(', ')
classList(classes) ==
  join([i \in 1..Len(classes) |->
          Show(Or(Or(classes[i].name, classes[i].subject), Str("class")))], ", ")

RECURSIVE freeDaysFrom(_, _)
freeDaysFrom(timetable, i) ==
  IF i >= 7 THEN <<>>
  ELSE (IF Len(getClassesForDay(timetable, i)) = 0 THEN <<getDayName(i)>> ELSE <<>>)
         \o freeDaysFrom(timetable, i + 1)

timetableAnalysis(c) ==
  LET m == c.lowerMessage
      analysis == analyzeWeeklyPattern(c.timetable)
      todayIdx == normalizedTodayIndex(c.now)
      todayClasses == getClassesForDay(c.timetable, todayIdx)
      tomorrowClasses == getClassesForDay(c.timetable, (todayIdx + 1) % 7)
      day == specificDay(m)
      classes == getClassesForDay(c.timetable, day)
      freeDays == freeDaysFrom(c.timetable, 0)
      Say(text) == Reply(addressMaybe(text, c.userName, c.rnd))
  IN IF isBusiestDay(m)
     THEN IF analysis.busiestDay.day # NullDay
          THEN Say("Your busiest day is " \o getDayName(analysis.busiestDay.day)
                     \o " with " \o ToString(analysis.busiestDay.count) \o " classes.")
          ELSE IF analysis.totalClasses = 0
          THEN Say("No classes scheduled this week.")
          ELSE Say("Your schedule is pretty evenly spread out.")
     ELSE IF isWorkload(m)
     THEN IF analysis.totalClasses = 0
          THEN Say("No classes scheduled this week -- you're completely free.")
          ELSE Say(join(
                 <<"You have " \o ToString(analysis.totalClasses) \o " classes across "
                     \o ToString(analysis.daysWithClasses) \o " days this week.">>
                 \o (IF analysis.totalClasses >= 8
                     THEN <<"That's quite a full week -- make sure to pace yourself.">>
                     ELSE IF analysis.totalClasses >= 5
                     THEN <<"A moderate week -- manageable with good planning.">>
                     ELSE <<"A lighter week -- good time to get ahead on other work.">>)
                 \o (IF analysis.busiestDay.day # NullDay
                     THEN <<"Your busiest day is " \o getDayName(analysis.busiestDay.day)
                              \o " with " \o ToString(analysis.busiestDay.count)
                              \o " classes.">>
                     ELSE <<>>),
                 " "))
     ELSE IF Includes(m, "tomorrow")
     THEN IF Len(tomorrowClasses) > 0
          THEN Say("Tomorrow you have " \o ToString(Len(tomorrowClasses)) \o " class"
                     \o Plural(Len(tomorrowClasses), "es") \o ": "
                     \o classList(tomorrowClasses) \o ".")
          ELSE Say("No classes tomorrow -- you're free.")
     ELSE IF Includes(m, "today")
     THEN IF Len(todayClasses) > 0
          THEN Say("Today's schedule: " \o ToString(Len(todayClasses)) \o " class"
                     \o Plural(Len(todayClasses), "es") \o " -- "
                     \o classList(todayClasses) \o ".")
          ELSE Say("No classes today. A good day to catch up on work.")
     ELSE IF day # NullDay
     THEN IF Len(classes) > 0
          THEN Say("On " \o getDayName(day) \o ": " \o ToString(Len(classes)) \o " class"
                     \o Plural(Len(classes), "es") \o " -- " \o classList(classes) \o ".")
          ELSE Say(getDayName(day) \o " is free -- no classes scheduled.")
     ELSE IF IncludesAny(m, {"free", "off day", "day off", "which day"})
     THEN IF Len(freeDays) > 0
          THEN Say("You're free on: " \o join(freeDays, ", ") \o ".")
          ELSE Say("You have classes every day this week -- no full free days.")
     ELSE IF Includes(m, "week") \/ Includes(m, "weekly")
     THEN IF analysis.totalClasses > 0
          THEN Say(join(
                 <<"Here's your week:">>
                 \o [i \in 1..7 |->
                       getDayName(i - 1) \o (IF i - 1 = todayIdx THEN " (today)" ELSE "")
                         \o ": " \o ToString(Len(getClassesForDay(c.timetable, i - 1)))
                         \o " class"
                         \o (IF Len(getClassesForDay(c.timetable, i - 1)) # 1
                             THEN "es" ELSE "")],
                 " "))
          ELSE Say("No classes scheduled this week -- a completely free week.")
     ELSE IF Len(todayClasses) > 0
     THEN Say("Today: " \o ToString(Len(todayClasses)) \o " class"
                \o Plural(Len(todayClasses), "es") \o " -- " \o classList(todayClasses)
                \o ".")
     ELSE Say("No classes today. Want to know about tomorrow or the rest of the week?")

greeting(c) ==
  LET todayClasses == getClassesForDay(c.timetable, normalizedTodayIndex(c.now))
      timeOfDay == getHours(c.now)
      hello == IF timeOfDay < 12 THEN "Good morning"
               ELSE IF timeOfDay < 17 THEN "Good afternoon" ELSE "Good evening"
      greetingLine == IF c.rnd < 50 THEN hello \o ", " \o c.userName \o "."
                      ELSE hello \o "."
      count == assignmentCount(c.assignments)
  IN Reply(formatReply(<<
       greetingLine,
       IF Len(todayClasses) > 0
       THEN "You have " \o ToString(Len(todayClasses)) \o " class"
              \o Plural(Len(todayClasses), "es") \o " today."
       ELSE "You're free today -- no classes scheduled.",
       IF count > 0
       THEN ToString(count) \o " pending assignment" \o Plural(count, "s") \o "."
       ELSE "",
       IF Gt(c.attendance.totalHeld, 0)
       THEN "Attendance at " \o Show(c.attendance.percentage) \o "%."
       ELSE "",
       IF Gt(c.expenses.thisMonth, 0)
       THEN "Spent Rs" \o MoneyFixed2(c.expenses.thisMonth.n) \o " this month."
       ELSE "",
       "Let me know if you need anything specific.">>))

gratitude(c) ==
  Reply(addressMaybe("Happy to help. Let me know if you need anything else.",
                     c.userName, c.rnd))

guidance(c) ==
  Reply(addressMaybe(
    "I can help you check your schedule, assignments, attendance, expenses, or calendar. Just ask -- like 'how busy is my week' or 'when's my next exam'.",
    c.userName, c.rnd))

(***************************************************************************)
(* The request bundle. Each optional field carries k: "absent" when the    *)
(* body has no such key, "object" or "array" for a value of the right      *)
(* shape, "badtype" for any other value; user may also be null.            *)
(***************************************************************************)
NoDays == [d \in 0..6 |-> <<>>]

NoUser == [k |-> "absent", firstName |-> Undefined]

NoAssignments == [k |-> "absent", entries |-> <<>>]

NoTimetable == [k |-> "absent", days |-> NoDays, present |-> [d \in 0..6 |-> FALSE]]

NoCgpa == [k |-> "absent", list |-> <<>>]

NoCalendarMarks == [k |-> "absent", list |-> <<>>]

NoAttendance ==
  [k |-> "absent", totalHeld |-> Undefined, totalAttended |-> Undefined,
   percentage |-> Undefined, subjects |-> <<>>]

NoExpenses ==
  [k |-> "absent", thisMonth |-> Undefined, total |-> Undefined,
   categories |-> [present |-> FALSE, list |-> <<>>]]

\* const { message, user = { firstName: 'there' }, assignments = {}, ... } = req.body
userOf(b) ==
  IF b.user.k = "absent" THEN [k |-> "object", firstName |-> Str("there")] ELSE b.user

assignmentsOf(b) == IF b.assignments.k = "absent" THEN <<>> ELSE b.assignments.entries

timetableOf(b) == IF b.timetable.k = "absent" THEN NoDays ELSE b.timetable.days

cgpaOf(b) == IF b.cgpa.k = "absent" THEN <<>> ELSE b.cgpa.list

calendarMarksOf(b) == IF b.calendarMarks.k = "absent" THEN <<>> ELSE b.calendarMarks.list

attendanceOf(b) ==
  IF b.attendance.k = "absent" THEN [NoAttendance EXCEPT !.k = "object"] ELSE b.attendance

expensesOf(b) ==
  IF b.expenses.k = "absent" THEN [NoExpenses EXCEPT !.k = "object"] ELSE b.expenses

(***************************************************************************)
(* validateChat: the validators record errors, the sanitizers rewrite the  *)
(* body                                                                    *)
(***************************************************************************)
MaxMessageLength == 500

MaxFirstNameLength == 50

\* the fields whose validators fail
validationErrors(b) ==
  {f \in {"message", "user.firstName", "assignments", "timetable", "todayIndex",
          "cgpa", "calendarMarks", "attendance", "attendance.totalHeld",
          "attendance.totalAttended", "attendance.percentage", "expenses",
          "expenses.thisMonth", "expenses.total"} :
     CASE f = "message" ->
            \/ ~IsStr(b.message)
            \/ Len(trim(b.message.s)) < 1
            \/ Len(trim(b.message.s)) > MaxMessageLength
       [] f = "user.firstName" ->
            /\ b.user.k = "object"
            /\ b.user.firstName.k # "undef"
            /\ \/ ~IsStr(b.user.firstName)
               \/ Len(trim(b.user.firstName.s)) > MaxFirstNameLength
       [] f = "assignments" -> b.assignments.k = "badtype"
       [] f = "timetable" -> b.timetable.k = "badtype"
       [] f = "todayIndex" ->
            b.todayIndex.k # "undef" /\ ~(IsNum(b.todayIndex) /\ b.todayIndex.n \in 0..6)
       [] f = "cgpa" -> b.cgpa.k = "badtype"
       [] f = "calendarMarks" -> b.calendarMarks.k = "badtype"
       [] f = "attendance" -> b.attendance.k = "badtype"
       [] f = "attendance.totalHeld" ->
            b.attendance.totalHeld.k # "undef" /\ ~Ge(b.attendance.totalHeld, 0)
       [] f = "attendance.totalAttended" ->
            b.attendance.totalAttended.k # "undef" /\ ~Ge(b.attendance.totalAttended, 0)
       [] f = "attendance.percentage" ->
            /\ b.attendance.percentage.k # "undef"
            /\ ~(Ge(b.attendance.percentage, 0) /\ ~Gt(b.attendance.percentage, 100))
       [] f = "expenses" -> b.expenses.k = "badtype"
       [] f = "expenses.thisMonth" ->
            b.expenses.thisMonth.k # "undef" /\ ~Ge(b.expenses.thisMonth, 0)
       [] f = "expenses.total" ->
            b.expenses.total.k # "undef" /\ ~Ge(b.expenses.total, 0)}

\* the body as the sanitizers leave it: message trimmed and stripped of < and >,
\* user.firstName trimmed
sanitizedBody(b) ==
  [b EXCEPT
     !.message = IF IsStr(b.message) THEN Str(StripAngle(trim(b.message.s)))
                 ELSE b.message,
     !.user = IF b.user.k = "object" /\ IsStr(b.user.firstName)
              THEN [b.user EXCEPT !.firstName = Str(trim(b.user.firstName.s))]
              ELSE b.user]

(***************************************************************************)
(* The handler of POST /chat                                               *)
(***************************************************************************)
\* the sanitisation of the handler, and its cut to 500 characters
sanitizeMessage(message) ==
  LET s == StripOnAttr(StripJavascript(StripScript(message)))
  IN IF Len(s) > MaxMessageLength THEN SubSeq(s, 1, MaxMessageLength) ELSE s

\* a cascade that tries the timetable keywords before the calendar keywords
intentOfTimetableFirst(m, sanitizedMessage) ==
  IF isNameQuery(m) THEN "NAME_QUERY"
  ELSE IF isExpenseMonthly(m) THEN "EXPENSE_MONTHLY"
  ELSE IF isExpenseInsights(m) THEN "EXPENSE_INSIGHTS"
  ELSE IF isAttendance(m) THEN "ATTENDANCE_INSIGHTS"
  ELSE IF isAcademic(m) THEN "ACADEMIC_INSIGHTS"
  ELSE IF isAssignment(m) THEN "ASSIGNMENT_PLANNING"
  ELSE IF isTimetable(m) THEN "TIMETABLE_ANALYSIS"
  ELSE IF isCalendar(m) THEN "CALENDAR_MANAGEMENT"
  ELSE IF isGreeting(m, sanitizedMessage) THEN "GREETING"
  ELSE IF isGratitude(m) THEN "GRATITUDE"
  ELSE "GUIDANCE"

\* a cascade that tries the general expense keywords before "this month"
intentOfGeneralFirst(m, sanitizedMessage) ==
  IF isNameQuery(m) THEN "NAME_QUERY"
  ELSE IF isExpenseInsights(m) THEN "EXPENSE_INSIGHTS"
  ELSE IF isExpenseMonthly(m) THEN "EXPENSE_MONTHLY"
  ELSE IF isAttendance(m) THEN "ATTENDANCE_INSIGHTS"
  ELSE IF isAcademic(m) THEN "ACADEMIC_INSIGHTS"
  ELSE IF isAssignment(m) THEN "ASSIGNMENT_PLANNING"
  ELSE IF isCalendar(m) THEN "CALENDAR_MANAGEMENT"
  ELSE IF isTimetable(m) THEN "TIMETABLE_ANALYSIS"
  ELSE IF isGreeting(m, sanitizedMessage) THEN "GREETING"
  ELSE IF isGratitude(m) THEN "GRATITUDE"
  ELSE "GUIDANCE"

\* a cascade without its closing else: the initial value of `intent` is kept
intentOfNoDefault(m, sanitizedMessage) ==
  IF isNameQuery(m) THEN "NAME_QUERY"
  ELSE IF isExpenseMonthly(m) THEN "EXPENSE_MONTHLY"
  ELSE IF isExpenseInsights(m) THEN "EXPENSE_INSIGHTS"
  ELSE IF isAttendance(m) THEN "ATTENDANCE_INSIGHTS"
  ELSE IF isAcademic(m) THEN "ACADEMIC_INSIGHTS"
  ELSE IF isAssignment(m) THEN "ASSIGNMENT_PLANNING"
  ELSE IF isCalendar(m) THEN "CALENDAR_MANAGEMENT"
  ELSE IF isTimetable(m) THEN "TIMETABLE_ANALYSIS"
  ELSE IF isGreeting(m, sanitizedMessage) THEN "GREETING"
  ELSE IF isGratitude(m) THEN "GRATITUDE"
  ELSE "GENERAL_QUERY"

\* a cascade that looks for a greeting first
intentOfGreetingFirst(m, sanitizedMessage) ==
  IF isGreeting(m, sanitizedMessage) THEN "GREETING"
  ELSE IF isNameQuery(m) THEN "NAME_QUERY"
  ELSE IF isExpenseMonthly(m) THEN "EXPENSE_MONTHLY"
  ELSE IF isExpenseInsights(m) THEN "EXPENSE_INSIGHTS"
  ELSE IF isAttendance(m) THEN "ATTENDANCE_INSIGHTS"
  ELSE IF isAcademic(m) THEN "ACADEMIC_INSIGHTS"
  ELSE IF isAssignment(m) THEN "ASSIGNMENT_PLANNING"
  ELSE IF isCalendar(m) THEN "CALENDAR_MANAGEMENT"
  ELSE IF isTimetable(m) THEN "TIMETABLE_ANALYSIS"
  ELSE IF isGratitude(m) THEN "GRATITUDE"
  ELSE "GUIDANCE"

\* the if / else if cascade on lowerMessage
intentOf(m, sanitizedMessage) ==
  IF isNameQuery(m) THEN "NAME_QUERY"
  ELSE IF isExpenseMonthly(m) THEN "EXPENSE_MONTHLY"
  ELSE IF isExpenseInsights(m) THEN "EXPENSE_INSIGHTS"
  ELSE IF isAttendance(m) THEN "ATTENDANCE_INSIGHTS"
  ELSE IF isAcademic(m) THEN "ACADEMIC_INSIGHTS"
  ELSE IF isAssignment(m) THEN "ASSIGNMENT_PLANNING"
  ELSE IF isCalendar(m) THEN "CALENDAR_MANAGEMENT"
  ELSE IF isTimetable(m) THEN "TIMETABLE_ANALYSIS"
  ELSE IF isGreeting(m, sanitizedMessage) THEN "GREETING"
  ELSE IF isGratitude(m) THEN "GRATITUDE"
  ELSE "GUIDANCE"

\* the body of the branch taken
branchOf(intent, c) ==
  CASE intent = "NAME_QUERY" -> nameQuery(c)
    [] intent = "EXPENSE_MONTHLY" -> expenseMonthly(c)
    [] intent = "EXPENSE_INSIGHTS" -> expenseInsights(c)
    [] intent = "ATTENDANCE_INSIGHTS" -> attendanceInsights(c)
    [] intent = "ACADEMIC_INSIGHTS" -> academicInsights(c)
    [] intent = "ASSIGNMENT_PLANNING" -> assignmentPlanning(c)
    [] intent = "CALENDAR_MANAGEMENT" -> calendarManagement(c)
    [] intent = "TIMETABLE_ANALYSIS" -> timetableAnalysis(c)
    [] intent = "GREETING" -> greeting(c)
    [] intent = "GRATITUDE" -> gratitude(c)
    [] OTHER -> guidance(c)

NoMetadata ==
  [present |-> FALSE, timestamp |-> 0, userName |-> "",
   dataUsed |-> [hasExpenses |-> FALSE, hasAttendance |-> FALSE, hasTimetable |-> FALSE,
                 hasAssignments |-> FALSE, hasCalendar |-> FALSE, hasCgpa |-> FALSE]]

\* the metadata block of the envelope
metadataOf(c) ==
  [present |-> TRUE, timestamp |-> c.now, userName |-> c.userName,
   dataUsed |-> [hasExpenses |-> expenseKeys(c.expenses) > 0,
                 hasAttendance |-> Gt(c.attendance.totalHeld, 0),
                 hasTimetable |-> c.timetableKeys > 0,
                 hasAssignments |-> assignmentCount(c.assignments) > 0,
                 hasCalendar |-> Len(c.calendarMarks) > 0,
                 hasCgpa |-> Len(c.cgpa) > 0]]

\* a catch block that sends error.message whatever the mode
errorResponseLeaking(message, debug) ==
  [status |-> 500, intent |-> "ERROR",
   reply |-> "Something went wrong. Could you try that again?",
   metadata |-> NoMetadata,
   error |-> Str(message),
   errors |-> {}]

\* the catch block
errorResponse(message, debug) ==
  [status |-> 500, intent |-> "ERROR",
   reply |-> "Something went wrong. Could you try that again?",
   metadata |-> NoMetadata,
   error |-> IF debug THEN Str(message) ELSE Undefined,
   errors |-> {}]

\* an envelope that keeps something between calls: once a response has been made,
\* the replies that follow say so
envelopeRepeating(r, intent, metadata, debug) ==
  IF r.throws THEN errorResponse(r.error, debug)
  ELSE [status |-> 200, intent |-> intent,
        reply |-> IF pc = "responded" \/ peer.pc = "responded"
                  THEN "As I said: " \o r.reply ELSE r.reply,
        metadata |-> IF r.early THEN NoMetadata ELSE metadata,
        error |-> Undefined, errors |-> {}]

\* the response to a request whose branch gave r: the envelope of a reply, the
\* bare { intent, reply } of a branch that returned early, the catch block's
\* answer to an exception
envelope(r, intent, metadata, debug) ==
  IF r.throws THEN errorResponse(r.error, debug)
  ELSE [status |-> 200, intent |-> intent, reply |-> r.reply,
        metadata |-> IF r.early THEN NoMetadata ELSE metadata,
        error |-> Undefined, errors |-> {}]

\* the response of the handler to body b with validation errors `errors`, the
\* clock readings now (the handler's) and today (getFutureDates') and the draw rnd
chatResponse(b, errors, debug, now, today, rnd) ==
  IF errors # {}
  THEN [status |-> 400, intent |-> "VALIDATION_ERROR",
        reply |-> "I received some invalid information. Please check your request format.",
        metadata |-> NoMetadata, error |-> Undefined,
        errors |-> IF debug THEN errors ELSE {}]
  ELSE IF ~IsStr(b.message)
  THEN [status |-> 400, intent |-> "VALIDATION_ERROR",
        reply |-> "Invalid message format.",
        metadata |-> NoMetadata, error |-> Undefined, errors |-> {}]
  ELSE IF userOf(b).k = "null"
  THEN errorResponse("Cannot read properties of null (reading 'firstName')", debug)
  ELSE LET sanitizedMessage == sanitizeMessage(b.message.s)
           c == [lowerMessage |-> toLowerCase(sanitizedMessage),
                 sanitizedMessage |-> sanitizedMessage,
                 userName |-> Show(Or(userOf(b).firstName, Str("there"))),
                 assignments |-> assignmentsOf(b),
                 timetable |-> timetableOf(b),
                 timetableKeys |->
                   Cardinality({d \in 0..6 : b.timetable.k = "object"
                                               /\ b.timetable.present[d]}),
                 cgpa |-> cgpaOf(b),
                 calendarMarks |-> calendarMarksOf(b),
                 attendance |-> attendanceOf(b),
                 expenses |-> expensesOf(b),
                 now |-> now, today |-> today, rnd |-> rnd]
           intent == intentOf(c.lowerMessage, sanitizedMessage)
       IN envelope(branchOf(intent, c), intent, metadataOf(c), debug)

(***************************************************************************)
(* The handler of routes/chat.route.js, which the app of app.js mounts     *)
(* without a validation chain. It shares DAYS, getDayName, formatReply,    *)
(* paragraph, normalizeClassTime, getClassesForDay and analyzeWeeklyPattern *)
(* with the handler above, word for word; its cascade has no NAME_QUERY    *)
(* and every reply of a branch is addressed to the user. An optional field *)
(* of kind "badtype" is a number here.                                     *)
(***************************************************************************)
addressUser(text, userName) == userName \o ", " \o text

\* Object.values(assignments).reduce((sum, count) => sum + count, 0), the counts
\* being numbers
assignmentCountSimple(assignments) ==
  IF \A i \in 1..Len(assignments) : IsNum(assignments[i].count)
  THEN Num(sumCounts(assignments, 1))
  ELSE NaN

isAcademicSimple(m) ==
  IncludesAny(m, {"cgpa", "gpa", "grade", "sgpa", "semester", "marks", "performance"})

isCalendarSimple(m) ==
  IncludesAny(m, {"calendar", "event", "exam", "important date", "meeting"})

isTimetableSimple(m) ==
  IncludesAny(m, {"class", "lecture", "timetable", "schedule", "tomorrow", "today",
                  "free day", "week", "busy", "packed"})

\* lowerMessage === '' never holds past the check of the message
isGreetingSimple(m) == IncludesAny(m, {"hi", "hello", "hey"}) \/ m = ""

expenseMonthlySimple(c) ==
  IF ~IsNum(c.expenses.thisMonth)
  THEN Reply(addressUser("No expense data available for this month.", c.userName))
  ELSE Reply(paragraph(<<
         addressUser("you've spent Rs" \o MoneyFixed2(c.expenses.thisMonth.n)
                       \o " so far this month.", c.userName),
         IF c.expenses.thisMonth.n > 10000
         THEN "Spending is on the higher side, so keeping an eye on discretionary expenses would help."
         ELSE "Your spending looks reasonably controlled at the moment.">>))

expenseInsightsSimple(c) ==
  IF expenseKeys(c.expenses) = 0
  THEN Reply(addressUser(
         "No expense records found. Start tracking expenses to manage your budget.",
         c.userName))
  ELSE LET total == Or(c.expenses.total, Num(0)).n
           thisMonth == Or(c.expenses.thisMonth, Num(0)).n
           top == sortedCategories(c.expenses.categories.list)
           replyLines ==
             <<addressUser("overall spending is Rs" \o MoneyFixed2(total) \o ", with Rs"
                             \o MoneyFixed2(thisMonth) \o " this month.", c.userName)>>
             \o (IF thisMonth > 10000
                 THEN <<"This month's spending is above average. Consider reviewing discretionary expenses.">>
                 ELSE IF thisMonth > 5000
                 THEN <<"Monthly spending is within moderate range.">>
                 ELSE IF thisMonth > 0
                 THEN <<"Your current spending pace is manageable.">>
                 ELSE <<>>)
             \o (IF Len(top) > 0
                 THEN <<"Primary spending categories:">>
                        \o [i \in 1..Len(top) |->
                              "* " \o top[i].cat \o ": Rs" \o MoneyFixed2(top[i].amt)
                                \o " (" \o sharePercent(top[i].amt, total) \o "%)"]
                 ELSE <<>>)
       IN Reply(formatReply(replyLines))

\* Math.ceil(held * 0.75) - attended, without a floor of 0
neededSimple(held, attended) ==
  IF IsNum(held) /\ IsNum(attended)
  THEN Num(CeilDiv(3 * held.n, 4) - attended.n)
  ELSE NaN

attendanceInsightsSimple(c) ==
  IF IsNum(c.attendance.totalHeld) /\ c.attendance.totalHeld.n = 0
  THEN Reply(addressUser("No attendance records available yet.", c.userName))
  ELSE LET percentage == c.attendance.percentage
           attended == c.attendance.totalAttended
           held == c.attendance.totalHeld
           needed == neededSimple(held, attended)
       IN Reply(paragraph(
            <<addressUser("your attendance is currently at " \o Show(percentage) \o "% ("
                            \o Show(attended) \o " of " \o Show(held) \o " classes).",
                          c.userName)>>
            \o (IF Lt(percentage, 75)
                THEN <<"This is below the recommended threshold of 75%.">>
                       \o (IF Gt(needed, 0)
                           THEN <<"You need to attend " \o Show(needed)
                                    \o " more classes to reach 75%.">>
                           ELSE <<>>)
                ELSE IF Lt(percentage, 85)
                THEN <<"This is acceptable, but could be improved for better academic standing.">>
                ELSE <<"This is at a good level for academic requirements.">>)))

academicInsightsSimple(c) ==
  LET cgpa == c.cgpa
      sgpa == score(cgpa[Len(cgpa)])
      first == score(cgpa[1])
      n == ToString(Len(cgpa))
  IN IF ~(Len(cgpa) > 0)
     THEN Reply(addressUser(
            "No academic records available. Add semester grades to track performance.",
            c.userName))
     ELSE IF ~IsNum(sgpa) THEN Throw(ToFixedOfUndefined)
     ELSE IF Includes(c.lowerMessage, "trend") \/ Includes(c.lowerMessage, "progress")
     THEN IF Len(cgpa) > 1
          THEN IF ~IsNum(first) THEN Throw(ToFixedOfUndefined)
               ELSE Reply(paragraph(<<
                      addressUser("your academic progress shows a current SGPA of "
                                    \o Fixed2(sgpa.n), c.userName),
                      "starting from " \o Fixed2(first.n),
                      IF sgpa.n - first.n >= 0
                      THEN "with an improvement of +" \o Fixed2(sgpa.n - first.n)
                             \o " over " \o n \o " semesters."
                      ELSE "with a change of " \o Fixed2(sgpa.n - first.n)
                             \o " over " \o n \o " semesters.">>))
          ELSE Reply(addressUser("your current SGPA is " \o Fixed2(sgpa.n)
                                   \o " (based on 1 semester).", c.userName))
     ELSE Reply(paragraph(<<
            addressUser("your latest SGPA is " \o Fixed2(sgpa.n), c.userName),
            "based on " \o n \o " semester" \o Plural(Len(cgpa), "s") \o " of data.">>))

\* the branch reads the clock itself: `now` is c.today
assignmentPlanningSimple(c) ==
  LET assignments == c.assignments
      count == assignmentCountSimple(assignments)
      sortedDates == sortDates([i \in 1..Len(assignments) |-> assignments[i].date])
      week == weekDates(sortedDates, 1, c.today)
      nextDate == sortedDates[1]
      nextCount == countOn(assignments, nextDate)
      Days(date) == daysUntil(date, c.today)
  IN IF count = Num(0)
     THEN EarlyReply(addressUser("No pending assignments.", c.userName))
     ELSE IF Includes(c.lowerMessage, "week") \/ Includes(c.lowerMessage, "this week")
     THEN IF Len(week) > 0
          THEN Reply(formatReply(
                 <<addressUser("here are assignments due this week:", c.userName)>>
                 \o [i \in 1..Len(week) |->
                       "* " \o week[i] \o ": " \o Show(countOn(assignments, week[i]))
                         \o " assignment"
                         \o (IF Gt(countOn(assignments, week[i]), 1) THEN "s" ELSE "")
                         \o " (" \o Show(Days(week[i])) \o " days)"]))
          ELSE Reply(addressUser("No assignments due this week.", c.userName))
     ELSE IF Includes(c.lowerMessage, "next") \/ Includes(c.lowerMessage, "upcoming")
     THEN Reply(paragraph(<<
            addressUser("your next deadline is " \o nextDate, c.userName),
            "with " \o Show(nextCount) \o " assignment"
              \o (IF Gt(nextCount, 1) THEN "s" ELSE "") \o " due in "
              \o Show(Days(nextDate)) \o " day"
              \o (IF Days(nextDate) # Num(1) THEN "s" ELSE "") \o ".">>))
     ELSE Reply(paragraph(<<
            addressUser("you have " \o Show(count) \o " pending assignment"
                          \o (IF Gt(count, 1) THEN "s" ELSE ""), c.userName),
            "with the nearest due on " \o nextDate \o " (" \o Show(Days(nextDate))
              \o " days)",
            "for " \o Show(nextCount) \o " assignment"
              \o (IF Gt(nextCount, 1) THEN "s" ELSE "") \o ".">>))

\* `${date}` of a calendar mark that is an object
ObjectText == "[object Object]"

\* d.categoryName?.toLowerCase() || d.toLowerCase() can be evaluated for mark d
categoryReadable(d) == IsStr(d.categoryName) /\ d.categoryName.s # ""

\* the branch takes every mark for a date string. The marks drawn are objects:
\* sort() leaves them in place, `${date}` is ObjectText and new Date(date) is
\* invalid, so that daysUntil is NaN
calendarManagementSimple(c) ==
  LET marks == c.calendarMarks
      examDates == categoryFilter(marks, 1, {"exam", "test"})
      upcoming == SubSeq(marks, 1, 3)
  IN IF c.calendarMarksKind = "badtype"
     THEN Throw("calendarMarks.sort is not a function")
     ELSE IF Len(marks) = 0
     THEN EarlyReply(addressUser("No important dates in calendar.", c.userName))
     ELSE IF Includes(c.lowerMessage, "exam")
     THEN IF \E i \in 1..Len(marks) : ~categoryReadable(marks[i])
          THEN LET d == marks[Least({i \in 1..Len(marks) : ~categoryReadable(marks[i])})]
               IN IF Truthy(d.categoryName)
                  THEN Throw("d.categoryName?.toLowerCase is not a function")
                  ELSE Throw("d.toLowerCase is not a function")
          ELSE IF Len(examDates) > 0
          THEN Reply(formatReply(
                 <<addressUser("your exam schedule:", c.userName)>>
                 \o [i \in 1..Len(examDates) |->
                       ToString(i) \o ". " \o ObjectText \o " (NaN days)"]))
          ELSE Reply(addressUser(
                 "found " \o ToString(Len(marks))
                   \o " important dates, none specifically marked as exams.", c.userName))
     ELSE IF Includes(c.lowerMessage, "next") \/ Includes(c.lowerMessage, "upcoming")
     THEN Reply(paragraph(<<
            addressUser("your next important date is " \o ObjectText, c.userName),
            "which is NaN days from now.">>))
     ELSE IF Len(marks) <= 3
     THEN Reply(formatReply(
            <<addressUser("important calendar dates:", c.userName)>>
            \o [i \in 1..Len(marks) |-> ToString(i) \o ". " \o ObjectText \o " (passed)"]))
     ELSE Reply(formatReply(
            <<addressUser("you have " \o ToString(Len(marks))
                            \o " important dates. Here are the upcoming ones:", c.userName)>>
            \o [i \in 1..Len(upcoming) |->
                  ToString(i) \o ". " \o ObjectText \o " (NaN days)"]))

\* the first reading of the clock, c.now, gives normalizedTodayIndex
timetableAnalysisSimple(c) ==
  LET m == c.lowerMessage
      analysis == analyzeWeeklyPattern(c.timetable)
      todayIdx == normalizedTodayIndex(c.now)
      todayClasses == getClassesForDay(c.timetable, todayIdx)
      tomorrowClasses == getClassesForDay(c.timetable, (todayIdx + 1) % 7)
      day == specificDay(m)
      classes == getClassesForDay(c.timetable, day)
      freeDays == freeDaysFrom(c.timetable, 0)
      Listed(lead, list) ==
        Reply(paragraph(<<
          addressUser(lead \o " you have " \o ToString(Len(list)) \o " class"
                        \o Plural(Len(list), "es"), c.userName),
          "(" \o classList(list) \o ").">>))
  IN IF Includes(m, "tomorrow")
     THEN IF Len(tomorrowClasses) > 0 THEN Listed("tomorrow", tomorrowClasses)
          ELSE Reply(addressUser("No classes scheduled for tomorrow.", c.userName))
     ELSE IF Includes(m, "today")
     THEN IF Len(todayClasses) > 0 THEN Listed("today", todayClasses)
          ELSE Reply(addressUser("No classes scheduled today.", c.userName))
     ELSE IF day # NullDay
     THEN IF Len(classes) > 0 THEN Listed("on " \o getDayName(day), classes)
          ELSE Reply(addressUser("No classes scheduled for " \o getDayName(day) \o ".",
                                 c.userName))
     ELSE IF Includes(m, "free") \/ Includes(m, "which day")
     THEN IF Len(freeDays) > 0
          THEN Reply(addressUser("days without classes: " \o join(freeDays, ", ") \o ".",
                                 c.userName))
          ELSE Reply(addressUser("Classes scheduled every day this week.", c.userName))
     ELSE IF Includes(m, "busiest") \/ Includes(m, "most busy")
     THEN IF analysis.busiestDay.day # NullDay
          THEN Reply(paragraph(<<
                 addressUser("the busiest day is " \o getDayName(analysis.busiestDay.day),
                             c.userName),
                 "with " \o ToString(analysis.busiestDay.count) \o " classes.">>))
          ELSE Reply(addressUser("Schedule is evenly balanced across the week.",
                                 c.userName))
     ELSE IF Includes(m, "week") \/ Includes(m, "weekly")
     THEN IF analysis.totalClasses > 0
          THEN IF Includes(m, "packed") \/ Includes(m, "busy")
               THEN Reply(paragraph(<<
                      addressUser("your week includes " \o ToString(analysis.totalClasses)
                                    \o " classes spread across "
                                    \o ToString(analysis.daysWithClasses) \o " days.",
                                  c.userName),
                      IF analysis.totalClasses >= 6
                      THEN "It's a fairly busy week, especially toward the heavier days."
                      ELSE "The workload looks manageable if you plan ahead.",
                      IF analysis.busiestDay.day # NullDay
                      THEN "The busiest day is " \o getDayName(analysis.busiestDay.day) \o "."
                      ELSE "">>))
               ELSE Reply(formatReply(
                      <<addressUser("weekly schedule:", c.userName)>>
                      \o [i \in 1..7 |->
                            getDayName(i - 1) \o (IF i - 1 = todayIdx THEN " (Today)" ELSE "")
                              \o ": " \o ToString(Len(getClassesForDay(c.timetable, i - 1)))
                              \o " classes"]
                      \o <<"Total: " \o ToString(analysis.totalClasses) \o " classes across "
                             \o ToString(analysis.daysWithClasses) \o " days">>))
          ELSE Reply(addressUser("No classes scheduled this week.", c.userName))
     ELSE IF Len(todayClasses) > 0 THEN Listed("today", todayClasses)
     ELSE Reply(addressUser(
            "No classes scheduled today. Ask about specific days or the weekly schedule.",
            c.userName))

\* the greeting reads the clock again for the hour: c.today
greetingSimple(c) ==
  LET todayClasses == getClassesForDay(c.timetable, normalizedTodayIndex(c.now))
      timeOfDay == getHours(c.today)
      hello == IF timeOfDay < 12 THEN "Good morning"
               ELSE IF timeOfDay < 17 THEN "Good afternoon" ELSE "Good evening"
      count == assignmentCountSimple(c.assignments)
  IN Reply(formatReply(<<
       hello \o ", " \o c.userName \o ".",
       "",
       "Here's a quick overview of where things stand today:",
       IF Len(todayClasses) > 0
       THEN "* You have " \o ToString(Len(todayClasses)) \o " class"
              \o Plural(Len(todayClasses), "es") \o " today"
       ELSE "* You don't have any classes today",
       IF Gt(count, 0)
       THEN "* " \o Show(count) \o " pending assignment"
              \o (IF Gt(count, 1) THEN "s" ELSE "")
       ELSE "",
       IF Gt(c.attendance.totalHeld, 0)
       THEN "* Attendance is currently at " \o Show(c.attendance.percentage) \o "%"
       ELSE "",
       IF Gt(c.expenses.thisMonth, 0)
       THEN "* Rs" \o MoneyFixed2(c.expenses.thisMonth.n) \o " spent this month"
       ELSE "">>))

gratitudeSimple(c) ==
  Reply(addressUser(
    "you're welcome. Let me know if you need assistance with anything else.", c.userName))

guidanceSimple(c) ==
  Reply(paragraph(<<
    addressUser(
      "I can help you analyse your schedule, assignments, attendance, expenses, and important dates.",
      c.userName),
    "You can ask things like:",
    "How busy is my week, am I low on attendance, or how my spending looks this month.">>))

\* the if / else if cascade of the handler without validation
intentOfSimple(m) ==
  IF isExpenseMonthly(m) THEN "EXPENSE_MONTHLY"
  ELSE IF isExpenseInsights(m) THEN "EXPENSE_INSIGHTS"
  ELSE IF isAttendance(m) THEN "ATTENDANCE_INSIGHTS"
  ELSE IF isAcademicSimple(m) THEN "ACADEMIC_INSIGHTS"
  ELSE IF isAssignment(m) THEN "ASSIGNMENT_PLANNING"
  ELSE IF isCalendarSimple(m) THEN "CALENDAR_MANAGEMENT"
  ELSE IF isTimetableSimple(m) THEN "TIMETABLE_ANALYSIS"
  ELSE IF isGreetingSimple(m) THEN "GREETING"
  ELSE IF isGratitude(m) THEN "GRATITUDE"
  ELSE "GUIDANCE"

branchOfSimple(intent, c) ==
  CASE intent = "EXPENSE_MONTHLY" -> expenseMonthlySimple(c)
    [] intent = "EXPENSE_INSIGHTS" -> expenseInsightsSimple(c)
    [] intent = "ATTENDANCE_INSIGHTS" -> attendanceInsightsSimple(c)
    [] intent = "ACADEMIC_INSIGHTS" -> academicInsightsSimple(c)
    [] intent = "ASSIGNMENT_PLANNING" -> assignmentPlanningSimple(c)
    [] intent = "CALENDAR_MANAGEMENT" -> calendarManagementSimple(c)
    [] intent = "TIMETABLE_ANALYSIS" -> timetableAnalysisSimple(c)
    [] intent = "GREETING" -> greetingSimple(c)
    [] intent = "GRATITUDE" -> gratitudeSimple(c)
    [] OTHER -> guidanceSimple(c)

\* the catch block
errorResponseSimple(message, debug) ==
  [status |-> 500, intent |-> "ERROR",
   reply |-> "Unable to process your request. Please try again.",
   metadata |-> NoMetadata,
   error |-> IF debug THEN Str(message) ELSE Undefined,
   errors |-> {}]

\* the metadata block of the envelope; its timestamp is a clock reading of its own
metadataOfSimple(c) ==
  [present |-> TRUE, timestamp |-> c.today, userName |-> c.userName,
   dataUsed |-> [hasExpenses |-> expenseKeys(c.expenses) > 0,
                 hasAttendance |-> Gt(c.attendance.totalHeld, 0),
                 hasTimetable |-> c.timetableKeys > 0,
                 hasAssignments |-> Gt(assignmentCountSimple(c.assignments), 0),
                 hasCalendar |-> Len(c.calendarMarks) > 0,
                 hasCgpa |-> Len(c.cgpa) > 0]]

envelopeSimple(r, intent, metadata, debug) ==
  IF r.throws THEN errorResponseSimple(r.error, debug)
  ELSE [status |-> 200, intent |-> intent, reply |-> r.reply,
        metadata |-> IF r.early THEN NoMetadata ELSE metadata,
        error |-> Undefined, errors |-> {}]

\* the response of the handler without validation to body b, with the first
\* clock reading now and the later ones today. A response without a reply has
\* reply "".
chatSimpleResponse(b, debug, now, today) ==
  IF ~(IsStr(b.message) /\ b.message.s # "")
  THEN [status |-> 400, intent |-> "ERROR", reply |-> "", metadata |-> NoMetadata,
        error |-> Str("Message is required"), errors |-> {}]
  ELSE IF userOf(b).k = "null"
  THEN errorResponseSimple("Cannot read properties of null (reading 'firstName')", debug)
  ELSE LET c == [lowerMessage |-> toLowerCase(b.message.s),
                 userName |-> Show(Or(userOf(b).firstName, Str("there"))),
                 assignments |-> assignmentsOf(b),
                 timetable |-> timetableOf(b),
                 timetableKeys |->
                   Cardinality({d \in 0..6 : b.timetable.k = "object"
                                               /\ b.timetable.present[d]}),
                 cgpa |-> cgpaOf(b),
                 calendarMarks |-> calendarMarksOf(b),
                 calendarMarksKind |-> b.calendarMarks.k,
                 attendance |-> attendanceOf(b),
                 expenses |-> expensesOf(b),
                 now |-> now, today |-> today]
           intent == intentOfSimple(c.lowerMessage)
       IN envelopeSimple(branchOfSimple(intent, c), intent, metadataOfSimple(c), debug)

(***************************************************************************)
(* The state machine: a request arrives, the validation chain runs, the    *)
(* handler answers.                                                        *)
(***************************************************************************)
NoBody ==
  [message |-> Undefined, user |-> NoUser, assignments |-> NoAssignments,
   timetable |-> NoTimetable, todayIndex |-> Undefined, cgpa |-> NoCgpa,
   calendarMarks |-> NoCalendarMarks, attendance |-> NoAttendance,
   expenses |-> NoExpenses]

NoResponse ==
  [status |-> 0, intent |-> "", reply |-> "", metadata |-> NoMetadata,
   error |-> Undefined, errors |-> {}]

NoEnv == [now |-> 0, today |-> 0, rnd |-> 0]

(***************************************************************************)
(* The rate limiters of the app (express-rate-limit with its memory store, *)
(* keyed by req.ip). Time is in minutes since the process started.         *)
(***************************************************************************)
ApiWindowMinutes == 15

ApiMax == 200

ChatWindowMinutes == 5

ChatMax == 30

Clients == {"203.0.113.5", "198.51.100.7"}

\* the store's entry of a key it has not seen
NoHits == [hits |-> 0, resetTime |-> 0]

\* store.increment(key): a window begins with the first request of a key and
\* with the first one after the window has ended
increment(entry, clock, windowMinutes) ==
  IF entry.hits = 0 \/ clock >= entry.resetTime
  THEN [hits |-> 1, resetTime |-> clock + windowMinutes]
  ELSE [entry EXCEPT !.hits = @ + 1]

\* a limiter that lets one request more through
exceededByTwo(entry, max) == entry.hits > max + 1

\* totalHits > max: the handler of the limiter answers and next() is not called
exceeded(entry, max) == entry.hits > max

NoLimits ==
  [clock |-> 0,
   api |-> [c \in Clients |-> NoHits],
   chat |-> [c \in Clients |-> NoHits],
   ip |-> "",
   before |-> 0,
   outcome |-> "",
   handled |-> [c \in Clients |-> 0],
   windows |-> [c \in Clients |-> 0]]

NoPeer ==
  [pc |-> "idle", posted |-> NoBody, body |-> NoBody, errs |-> {}, env |-> NoEnv,
   res |-> NoResponse]

Init ==
  /\ DEBUG \in BOOLEAN
  /\ app \in {"secured", "plain"}
  /\ pc = "idle"
  /\ body = NoBody
  /\ errs = {}
  /\ env = NoEnv
  /\ res = NoResponse
  /\ posted = NoBody
  /\ peer = NoPeer
  /\ limits = NoLimits

\* a client posts one of `bodies` to /chat
Request(bodies) ==
  /\ pc = "idle"
  /\ body' \in bodies
  /\ posted' = body'
  /\ pc' = "received"
  /\ UNCHANGED <<DEBUG, app, errs, env, res, peer, limits>>

\* the middleware chain validateChat
validateChat ==
  /\ app = "secured"
  /\ pc = "received"
  /\ errs' = validationErrors(body)
  /\ body' = sanitizedBody(body)
  /\ pc' = "validated"
  /\ UNCHANGED <<DEBUG, app, env, res, posted, peer, limits>>

\* the handler, in an environment (clock readings and random draw) of `envs`
chat(envs) ==
  /\ pc = "validated"
  /\ env' \in envs
  /\ res' = chatResponse(body, errs, DEBUG, env'.now, env'.today, env'.rnd)
  /\ pc' = "responded"
  /\ UNCHANGED <<DEBUG, app, body, errs, posted, peer, limits>>

\* the handler of routes/chat.route.js, which no middleware precedes
chatSimple(envs) ==
  /\ app = "plain"
  /\ pc = "received"
  /\ env' \in envs
  /\ res' = chatSimpleResponse(body, DEBUG, env'.now, env'.today)
  /\ pc' = "responded"
  /\ UNCHANGED <<DEBUG, app, body, errs, posted, peer, limits>>

\* the response is sent and the request's state is dropped
Finish ==
  /\ pc = "responded"
  /\ pc' = "idle"
  /\ body' = NoBody
  /\ errs' = {}
  /\ env' = NoEnv
  /\ res' = NoResponse
  /\ posted' = NoBody
  /\ UNCHANGED <<DEBUG, app, peer, limits>>

(***************************************************************************)
(* A second request served by the same process while the first is in       *)
(* flight. The handler has no await: it runs from its first line to        *)
(* res.json without yielding, so that requests interleave only between     *)
(* the arrival, the validation chain and the handler. Each validator of    *)
(* the chain touches its own req alone, and the chain is one step.         *)
(***************************************************************************)
PeerRequest(bodies) ==
  /\ peer.pc = "idle"
  /\ \E b \in bodies : peer' = [peer EXCEPT !.pc = "received", !.posted = b, !.body = b]
  /\ UNCHANGED <<DEBUG, app, pc, body, errs, env, res, posted, limits>>

PeerValidateChat ==
  /\ app = "secured"
  /\ peer.pc = "received"
  /\ peer' = [peer EXCEPT !.pc = "validated",
                          !.errs = validationErrors(peer.body),
                          !.body = sanitizedBody(peer.body)]
  /\ UNCHANGED <<DEBUG, app, pc, body, errs, env, res, posted, limits>>

\* a handler that reads the validation result from a place all requests share,
\* where the chain of the other request has written too
PeerChatSharedErrors(envs) ==
  /\ peer.pc = "validated"
  /\ \E e \in envs :
       peer' = [peer EXCEPT !.pc = "responded",
                            !.env = e,
                            !.res = chatResponse(peer.body, peer.errs \cup errs, DEBUG,
                                                 e.now, e.today, e.rnd)]
  /\ UNCHANGED <<DEBUG, app, pc, body, errs, env, res, posted, limits>>

PeerChat(envs) ==
  /\ peer.pc = "validated"
  /\ \E e \in envs :
       peer' = [peer EXCEPT !.pc = "responded",
                            !.env = e,
                            !.res = chatResponse(peer.body, peer.errs, DEBUG,
                                                 e.now, e.today, e.rnd)]
  /\ UNCHANGED <<DEBUG, app, pc, body, errs, env, res, posted, limits>>

PeerChatSimple(envs) ==
  /\ app = "plain"
  /\ peer.pc = "received"
  /\ \E e \in envs :
       peer' = [peer EXCEPT !.pc = "responded",
                            !.env = e,
                            !.res = chatSimpleResponse(peer.body, DEBUG, e.now, e.today)]
  /\ UNCHANGED <<DEBUG, app, pc, body, errs, env, res, posted, limits>>

PeerFinish ==
  /\ peer.pc = "responded"
  /\ peer' = NoPeer
  /\ UNCHANGED <<DEBUG, app, pc, body, errs, env, res, posted, limits>>

(***************************************************************************)
(* Requests and environments                                               *)
(***************************************************************************)
\* the hour `hour` of June `day`, 2025
Clock(day, hour) == (day - 1) * HoursPerDay + hour

Env(now, rnd) == [now |-> now, today |-> now, rnd |-> rnd]

\* Tuesday morning, with the draw on either side of 0.35
TuesdayMorning == {Env(Clock(10, 9), rnd) : rnd \in {34, 35}}

Body(message) == [NoBody EXCEPT !.message = Str(message)]

User(firstName) == [k |-> "object", firstName |-> firstName]

RECURSIVE Repeat(_, _)
Repeat(s, n) ==
  IF n = 0 THEN ""
  ELSE IF n = 1 THEN s
  ELSE Repeat(s, n \div 2) \o Repeat(s, n - n \div 2)

(***************************************************************************)
(* Messages: phrases of up to MaxWords vocabulary entries, which set off   *)
(* every predicate of the cascade alone and together                       *)
(***************************************************************************)
MaxWords == 2

Words ==
  {"what is my name", "who am i", "this month", "spend", "expense", "money",
   "attendance", "percentage", "grade", "sgpa", "progress", "homework", "due",
   "exam", "holiday", "schedule", "busy", "today", "this week", "hello", "hey",
   "thanks", "appreciate", "ok"}

RECURSIVE Phrases(_)
Phrases(n) ==
  IF n <= 1 THEN Words
  ELSE Phrases(n - 1) \cup {p \o " " \o w : p \in Phrases(n - 1), w \in Words}

\* messages the validators and sanitizers act on
OddMessages ==
  {"How much did I spend this month", "  What is MY name?  ", "<>", "< >",
   "<b>hey</b>", "javascript:", "x onload=", "AM I BUSY", "",  "   ",
   Repeat("a", MaxMessageLength), Repeat("a", MaxMessageLength + 1)}

IntentBodies ==
  {Body(m) : m \in Phrases(MaxWords) \cup OddMessages}
    \cup {[Body(m) EXCEPT !.user = u] :
            m \in {"what is my name", "whats my name today", "who am i this month",
                   "do you know my name", "hello", "thanks", ""},
            u \in {User(Str("Asha")), User(Str("  Asha ")), User(Str("")),
                   User(Undefined), User(Num(7)), [NoUser EXCEPT !.k = "null"]}}
    \cup {[NoBody EXCEPT !.message = v] : v \in {Undefined, Num(5)}}

NextIntent ==
  \/ Request(IntentBodies)
  \/ validateChat
  \/ chat(TuesdayMorning)
  \/ chatSimple(TuesdayMorning)
  \/ Finish

SpecIntent == Init /\ [][NextIntent]_vars

(***************************************************************************)
(* Bundles: every optional field absent, empty or filled, under one        *)
(* message for each branch and sub-case of the handler                     *)
(***************************************************************************)
Class(name) ==
  [name |-> Str(name), subject |-> Undefined, startTime |-> Undefined,
   endTime |-> Undefined, time |-> Str("09:00 - 10:00")]

Timetable(days) ==
  [k |-> "object", days |-> days, present |-> [d \in 0..6 |-> days[d] # <<>>]]

Subject(name, attended, held, percentage) ==
  [name |-> name, attended |-> Num(attended), held |-> Num(held),
   percentage |-> Num(percentage)]

Attendance(held, attended, percentage, subjects) ==
  [k |-> "object", totalHeld |-> held, totalAttended |-> attended,
   percentage |-> percentage, subjects |-> subjects]

Semester(sgpa) ==
  [sgpa |-> sgpa, gpa |-> Undefined, score |-> Undefined, semester |-> Undefined,
   name |-> Undefined]

Mark(date, categoryName) == [date |-> Str(date), categoryName |-> Str(categoryName)]

Expenses(thisMonth, total, categories) ==
  [k |-> "object", thisMonth |-> thisMonth, total |-> total,
   categories |-> [present |-> categories # <<>>, list |-> categories]]

UserChoices == {NoUser, User(Undefined), User(Str("")), User(Str("Asha"))}

AssignmentsChoices ==
  {NoAssignments,
   [k |-> "object", entries |-> <<>>],
   [k |-> "object", entries |-> <<[date |-> "2025-06-12", count |-> Num(0)]>>],
   [k |-> "object", entries |-> <<[date |-> "2025-06-20", count |-> Num(1)],
                                   [date |-> "2025-06-12", count |-> Num(2)]>>]}

TimetableChoices ==
  {NoTimetable,
   Timetable(NoDays),
   Timetable([d \in 0..6 |-> IF d = 1 THEN <<Class("Maths"), Class("Physics")>>
                             ELSE IF d = 3 THEN <<Class("Chemistry")>> ELSE <<>>])}

CgpaChoices ==
  {NoCgpa,
   [k |-> "array", list |-> <<>>],
   [k |-> "array", list |-> <<Semester(Num(725))>>],
   [k |-> "array", list |-> <<Semester(Num(700)), Semester(Num(780))>>]}

CalendarMarksChoices ==
  {NoCalendarMarks,
   [k |-> "array", list |-> <<>>],
   [k |-> "array", list |-> <<Mark("2025-06-18", "Exam"), Mark("2025-06-02", "Holiday"),
                               Mark("2025-06-14", "Summer break")>>]}

AttendanceChoices ==
  {NoAttendance,
   Attendance(Undefined, Undefined, Undefined, <<>>),
   Attendance(Num(0), Num(0), Num(0), <<>>),
   Attendance(Num(40), Num(28), Num(70),
              <<Subject("Maths", 6, 10, 60), Subject("Physics", 22, 30, 73)>>),
   Attendance(Num(40), Num(36), Num(90), <<>>)}

ExpensesChoices ==
  {NoExpenses,
   Expenses(Undefined, Undefined, <<>>),
   Expenses(Num(6500), Num(20000),
            <<[cat |-> "Food", amt |-> 9000], [cat |-> "Travel", amt |-> 4000],
              [cat |-> "Books", amt |-> 7000]>>)}

\* a bundle with every field absent, with every field empty, and with every
\* field filled
Bundles ==
  {NoBody,
   [NoBody EXCEPT !.user = User(Undefined),
                  !.assignments = [k |-> "object", entries |-> <<>>],
                  !.timetable = Timetable(NoDays),
                  !.cgpa = [k |-> "array", list |-> <<>>],
                  !.calendarMarks = [k |-> "array", list |-> <<>>],
                  !.attendance = Attendance(Num(0), Num(0), Num(0), <<>>),
                  !.expenses = Expenses(Undefined, Undefined, <<>>)],
   [NoBody EXCEPT !.user = User(Str("Asha")),
                  !.todayIndex = Num(1),
                  !.assignments = [k |-> "object",
                                   entries |-> <<[date |-> "2025-06-12", count |-> Num(2)]>>],
                  !.timetable = Timetable([d \in 0..6 |->
                                             IF d = 1 THEN <<Class("Maths")>> ELSE <<>>]),
                  !.cgpa = [k |-> "array", list |-> <<Semester(Num(700)), Semester(Num(780))>>],
                  !.calendarMarks = [k |-> "array", list |-> <<Mark("2025-06-18", "Exam")>>],
                  !.attendance = Attendance(Num(40), Num(28), Num(70), <<>>),
                  !.expenses = Expenses(Num(6500), Num(20000), <<>>)]}

\* each bundle, with one of its fields set to each of that field's choices
VariedBundles ==
  UNION {
    {[b EXCEPT !.user = v] : v \in UserChoices}
      \cup {[b EXCEPT !.assignments = v] : v \in AssignmentsChoices}
      \cup {[b EXCEPT !.timetable = v] : v \in TimetableChoices}
      \cup {[b EXCEPT !.cgpa = v] : v \in CgpaChoices}
      \cup {[b EXCEPT !.calendarMarks = v] : v \in CalendarMarksChoices}
      \cup {[b EXCEPT !.attendance = v] : v \in AttendanceChoices}
      \cup {[b EXCEPT !.expenses = v] : v \in ExpensesChoices} : b \in Bundles}

BundleMessages ==
  {"What is my name", "who am i today", "how much did I spend this month",
   "my expenses", "attendance", "attendance per subject", "which subject has the lowest attendance",
   "my grades", "list all grades", "show my progress", "any homework",
   "what is due this week", "next deadline", "my calendar", "next exam",
   "next holiday", "classes today", "how busy is my week", "busiest day",
   "hello", "thanks", "ok"}

BundleBodies ==
  {[b EXCEPT !.message = Str(m)] : b \in VariedBundles, m \in BundleMessages}

\* Tuesday 10 June 09:00 and Sunday 15 June 23:00, the draw on either side of
\* 0.35 and of 0.5
BundleEnvs ==
  {Env(now, rnd) : now \in {Clock(10, 9), Clock(15, 23)}, rnd \in {34, 35, 50}}

NextBundle ==
  \/ Request(BundleBodies)
  \/ validateChat
  \/ chat(BundleEnvs)
  \/ chatSimple(BundleEnvs)
  \/ Finish

SpecBundle == Init /\ [][NextBundle]_vars

(***************************************************************************)
(* Attendance records: every count of classes held up to MaxHeld with      *)
(* every count attended, the percentage stated being absent, the one the   *)
(* counts give, or one on either side of the threshold whatever the counts *)
(***************************************************************************)
MaxHeld == 8

MaxSubjects == 2

OverallRecords ==
  {Attendance(Num(held), Num(attended), percentage, <<>>) :
     held \in 1..MaxHeld, attended \in 0..MaxHeld,
     percentage \in {Undefined, Num(50), Num(74), Num(75)}}
    \cup UNION {{Attendance(Num(held), Num(attended),
                             Num((100 * attended) \div held), <<>>) :
                    attended \in 0..held} : held \in 1..MaxHeld}
    \cup {Attendance(Num(40), Num(28), Num(70), <<>>),
          Attendance(Num(40), Undefined, Num(70), <<>>),
          Attendance(Num(0), Num(0), Num(0), <<>>)}

\* subject records, two of them with a percentage their counts do not give
SubjectRecords ==
  {Subject("Maths", 6, 10, 60), Subject("Physics", 22, 30, 73),
   Subject("Chemistry", 9, 10, 90), Subject("Biology", 4, 4, 50),
   Subject("History", 3, 4, 75), Subject("Art", 0, 0, 0)}

RECURSIVE SeqsUpTo(_, _)
\* the sequences of at most n elements of S
SeqsUpTo(S, n) ==
  IF n = 0 THEN {<<>>}
  ELSE SeqsUpTo(S, n - 1)
         \cup {Append(s, x) : s \in {q \in SeqsUpTo(S, n - 1) : Len(q) = n - 1}, x \in S}

AttendanceBodies ==
  {[Body("my attendance") EXCEPT !.attendance = a] : a \in OverallRecords}
    \cup {[Body(m) EXCEPT !.attendance = Attendance(Num(40), Num(28), Num(70), subjects)] :
            m \in {"which subject has the lowest attendance", "attendance by subject",
                   "attendance", "which subject is lowest in my attendance by subject"},
            subjects \in {q \in SeqsUpTo(SubjectRecords, MaxSubjects) :
                             \A i, j \in 1..Len(q) : q[i].name = q[j].name => i = j}}

NextAttendance ==
  \/ Request(AttendanceBodies)
  \/ validateChat
  \/ chat(TuesdayMorning)
  \/ chatSimple(TuesdayMorning)
  \/ Finish

SpecAttendance == Init /\ [][NextAttendance]_vars

(***************************************************************************)
(* Timetables: every week of seven days with up to MaxClassesPerDay        *)
(* classes a day                                                           *)
(***************************************************************************)
MaxClassesPerDay == 2

ClassesOf(n) == [i \in 1..n |-> Class("Maths")]

Weeks == [0..6 -> {ClassesOf(n) : n \in 0..MaxClassesPerDay}]

TimetableBodies ==
  {[Body(m) EXCEPT !.timetable = Timetable(days)] :
     m \in {"how busy is my week", "what is my busiest day"}, days \in Weeks}
    \cup {[Body(m) EXCEPT !.timetable = tt] :
            m \in {"which is my busiest day", "my classes this week", "classes tomorrow",
                   "any free day"},
            tt \in TimetableChoices}

NextTimetable ==
  \/ Request(TimetableBodies)
  \/ validateChat
  \/ chat({Env(Clock(10, 9), 35)})
  \/ chatSimple({Env(Clock(10, 9), 35)})
  \/ Finish

SpecTimetable == Init /\ [][NextTimetable]_vars

(***************************************************************************)
(* Grades: every sequence of up to MaxSemesters semester records           *)
(***************************************************************************)
MaxSemesters == 2

\* scores in hundredths, among them pairs 0.30 apart and a score of 0; a record
\* with its score under gpa, one with it under score, and one with none
SemesterRecords ==
  {Semester(Num(h)) : h \in {0, 100, 130, 400, 430, 700, 730, 780}}
    \cup {[Semester(Undefined) EXCEPT !.gpa = Num(650)],
          [Semester(Num(0)) EXCEPT !.gpa = Num(650)],
          [Semester(Num(700)) EXCEPT !.gpa = Num(650), !.score = Num(910)],
          [Semester(Undefined) EXCEPT !.score = Num(910), !.name = Str("Autumn")],
          Semester(Undefined)}

AcademicBodies ==
  {[Body(m) EXCEPT !.cgpa = [k |-> "array", list |-> list]] :
     m \in {"show my progress", "my grades", "list all grades", "grade trend"},
     list \in SeqsUpTo(SemesterRecords, MaxSemesters)}

NextAcademic ==
  \/ Request(AcademicBodies)
  \/ validateChat
  \/ chat(TuesdayMorning)
  \/ chatSimple(TuesdayMorning)
  \/ Finish

SpecAcademic == Init /\ [][NextAcademic]_vars

(***************************************************************************)
(* Expenses: every map of up to MaxCategories categories with amounts that *)
(* tie, differ and are 0, under a total that is missing, 0 or above 0      *)
(***************************************************************************)
MaxCategories == 3

CategoryRecords ==
  {[cat |-> name, amt |-> amt] : name \in {"Food", "Travel", "Books"},
                                  amt \in {0, 4000, 9000}}

\* the maps: no key twice, in every order of insertion
CategoryMaps ==
  {q \in SeqsUpTo(CategoryRecords, MaxCategories) :
     \A i, j \in 1..Len(q) : q[i].cat = q[j].cat => i = j}

ExpenseBodies ==
  {[Body("how are my expenses") EXCEPT !.expenses = Expenses(Num(6500), total, categories)] :
     total \in {Undefined, Num(0), Num(20000)}, categories \in CategoryMaps}

NextExpenses ==
  \/ Request(ExpenseBodies)
  \/ validateChat
  \/ chat(TuesdayMorning)
  \/ chatSimple(TuesdayMorning)
  \/ Finish

SpecExpenses == Init /\ [][NextExpenses]_vars

(***************************************************************************)
(* Due dates: every map of up to MaxDueDates dates around 10 June -- the   *)
(* day before, the day, seven and eight days ahead -- with counts of 0 and *)
(* 1, asked about at midnight, in the morning and late in the evening      *)
(***************************************************************************)
MaxDueDates == 3

DueRecords ==
  {[date |-> IsoDate(d), count |-> Num(n)] : d \in {9, 10, 17, 18}, n \in 0..1}

\* the maps: no date twice, in every order of insertion
DueMaps ==
  {q \in SeqsUpTo(DueRecords, MaxDueDates) :
     \A i, j \in 1..Len(q) : q[i].date = q[j].date => i = j}

DueBodies ==
  {[Body(m) EXCEPT !.assignments = [k |-> "object", entries |-> q]] :
     m \in {"assignments this week", "next assignment", "my assignments"}, q \in DueMaps}

DueEnvs == {Env(Clock(10, hour), 35) : hour \in {0, 9, 23}}

NextDue ==
  \/ Request(DueBodies)
  \/ validateChat
  \/ chat(DueEnvs)
  \/ chatSimple(DueEnvs)
  \/ Finish

SpecDue == Init /\ [][NextDue]_vars

(***************************************************************************)
(* Calendar marks: every list of up to MaxMarks marks dated the day        *)
(* before 10 June, the day, two days on and on no date at all, of an exam, *)
(* a break and a category of neither kind                                  *)
(***************************************************************************)
MaxMarks == 3

MarkRecords ==
  {Mark(date, categoryName) :
     date \in {IsoDate(9), IsoDate(10), IsoDate(12), "someday"},
     categoryName \in {"Exam", "Winter Break", "Sports"}}

\* the lists, in every order, no date twice
MarkLists ==
  {q \in SeqsUpTo(MarkRecords, MaxMarks) :
     \A i, j \in 1..Len(q) : q[i].date = q[j].date => i = j}

CalendarBodies ==
  {[Body(m) EXCEPT !.calendarMarks = [k |-> "array", list |-> q]] :
     m \in {"next holiday event", "next exam", "next event", "my calendar"},
     q \in MarkLists \ {<<>>}}

CalendarEnvs == {Env(Clock(10, hour), 35) : hour \in {9, 23}}

NextCalendar ==
  \/ Request(CalendarBodies)
  \/ validateChat
  \/ chat(CalendarEnvs)
  \/ chatSimple(CalendarEnvs)
  \/ Finish

SpecCalendar == Init /\ [][NextCalendar]_vars

(***************************************************************************)
(* Lists: the four queries answered with a list, over bundles whose lists  *)
(* have two and three entries                                              *)
(***************************************************************************)
ListedTimetables ==
  {Timetable([d \in 0..6 |-> IF d = 1 THEN <<Class("Maths"), Class("Physics")>>
                             ELSE IF d = 3 THEN <<Class("Chemistry")>> ELSE <<>>]),
   Timetable([d \in 0..6 |-> IF d < 5 THEN <<Class("Maths")>> ELSE <<>>])}

ListedSubjects ==
  {<<Subject("Maths", 7, 10, 70), Subject("Physics", 9, 10, 90)>>,
   <<Subject("Physics", 8, 10, 80), Subject("Art", 9, 10, 90), Subject("Maths", 6, 10, 60)>>}

ListedMarks ==
  {<<Mark(IsoDate(18), "Exam"), Mark(IsoDate(12), "Holiday")>>,
   <<Mark(IsoDate(20), "Sports"), Mark(IsoDate(11), "Exam"), Mark(IsoDate(14), "Break")>>}

ListedSemesters ==
  {<<Semester(Num(700)), Semester(Num(780))>>,
   <<Semester(Num(650)), Semester(Num(700)), Semester(Num(910))>>}

ListBodies ==
  {[Body(m) EXCEPT !.timetable = timetable,
                   !.attendance = Attendance(Num(20), Num(16), Num(80), subjects),
                   !.calendarMarks = [k |-> "array", list |-> marks],
                   !.cgpa = [k |-> "array", list |-> semesters]] :
     m \in {"my weekly timetable", "my attendance by subject", "my calendar",
            "list all my grades"},
     timetable \in ListedTimetables, subjects \in ListedSubjects,
     marks \in ListedMarks, semesters \in ListedSemesters}

NextLists ==
  \/ Request(ListBodies)
  \/ validateChat
  \/ chat(TuesdayMorning)
  \/ chatSimple(TuesdayMorning)
  \/ Finish

SpecLists == Init /\ [][NextLists]_vars

(***************************************************************************)
(* Midnight: requests whose handling begins in the last hour of 10 June,   *)
(* the clock being read again within the hour or after midnight            *)
(***************************************************************************)
MidnightMarks ==
  {q \in SeqsUpTo({Mark(IsoDate(d), categoryName) :
                     d \in {10, 11}, categoryName \in {"Exam", "Sports"}}, 2) :
     \A i, j \in 1..Len(q) : q[i].date = q[j].date => i = j}

MidnightBodies ==
  {[Body(m) EXCEPT !.calendarMarks = [k |-> "array", list |-> q],
                   !.assignments = [k |-> "object",
                                    entries |-> <<[date |-> IsoDate(10), count |-> Num(1)],
                                                  [date |-> IsoDate(18), count |-> Num(2)]>>],
                   !.timetable = Timetable([d \in 0..6 |-> IF d = 1 THEN <<Class("Maths")>>
                                                           ELSE <<>>])] :
     m \in {"my calendar", "next exam", "assignments this week", "classes today",
            "classes tomorrow", "hello"},
     q \in MidnightMarks}

\* the reading at the start and the readings after it
MidnightEnvs ==
  {[now |-> Clock(10, 23), today |-> later, rnd |-> 35] :
     later \in {Clock(10, 23), Clock(11, 0)}}

NextMidnight ==
  \/ Request(MidnightBodies)
  \/ validateChat
  \/ chat(MidnightEnvs)
  \/ chatSimple(MidnightEnvs)
  \/ Finish

SpecMidnight == Init /\ [][NextMidnight]_vars

(***************************************************************************)
(* Limits: POST /chat requests of a frequent client and of an occasional   *)
(* one to the app with the limiters, over the first MaxMinutes minutes     *)
(***************************************************************************)
MaxMinutes == 5

MaxOccasionalRequests == 1

FrequentClient == "203.0.113.5"

\* the chat window of client c is open at the minute `clock`
ChatWindowOpen(c, clock) ==
  limits.chat[c].hits > 0 /\ clock < limits.chat[c].resetTime

\* a POST /chat of client c reaches the app; a client sends no more once the
\* global limiter has turned it away, the occasional client no more than
\* MaxOccasionalRequests
Arrive(c) ==
  /\ app = "plain"
  /\ pc = "idle"
  /\ ~exceeded(limits.api[c], ApiMax)
  /\ c # FrequentClient => limits.api[c].hits < MaxOccasionalRequests
  /\ pc' = "arrived"
  /\ limits' = [limits EXCEPT !.ip = c,
                              !.outcome = "",
                              !.before = IF ChatWindowOpen(c, limits.clock)
                                         THEN limits.handled[c] ELSE 0]
  /\ UNCHANGED <<DEBUG, app, body, errs, env, res, posted, peer>>

\* the response of a limiter's handler: res.status(429).json({ error, code })
TooManyRequests(message) ==
  [NoResponse EXCEPT !.status = 429, !.error = Str(message)]

\* app.use(apiLimiter)
apiLimiter ==
  /\ pc = "arrived"
  /\ LET c == limits.ip
         entry == increment(limits.api[c], limits.clock, ApiWindowMinutes)
     IN IF exceeded(entry, ApiMax)
        THEN /\ limits' = [limits EXCEPT !.api[c] = entry,
                                         !.outcome = "RATE_LIMIT_GLOBAL"]
             /\ res' = TooManyRequests("Too many requests. Please try again later.")
             /\ pc' = "responded"
        ELSE /\ limits' = [limits EXCEPT !.api[c] = entry]
             /\ pc' = "admitted"
             /\ UNCHANGED res
  /\ UNCHANGED <<DEBUG, app, body, errs, env, posted, peer>>

\* app.use('/chat', chatLimiter), and the router behind it
chatLimiter(bodies) ==
  /\ pc = "admitted"
  /\ LET c == limits.ip
         entry == increment(limits.chat[c], limits.clock, ChatWindowMinutes)
         begins == entry.hits = 1
     IN IF exceeded(entry, ChatMax)
        THEN /\ limits' = [limits EXCEPT !.chat[c] = entry,
                                         !.outcome = "RATE_LIMIT_CHAT"]
             /\ res' = TooManyRequests(
                         "Chat message limit reached. Please wait a few minutes.")
             /\ pc' = "responded"
             /\ UNCHANGED <<body, posted>>
        ELSE /\ limits' = [limits EXCEPT
                             !.chat[c] = entry,
                             !.outcome = "handler",
                             !.handled[c] = IF begins THEN 1 ELSE @ + 1,
                             !.windows[c] = IF begins THEN @ + 1 ELSE @]
             /\ body' \in bodies
             /\ posted' = body'
             /\ pc' = "received"
             /\ UNCHANGED res
  /\ UNCHANGED <<DEBUG, app, errs, env, peer>>

\* a minute passes between two requests
Tick ==
  /\ pc = "idle"
  /\ limits.clock < MaxMinutes
  /\ limits' = [limits EXCEPT !.clock = @ + 1]
  /\ UNCHANGED <<DEBUG, app, pc, body, errs, env, res, posted, peer>>

\* the process of the app with the limiters, in production
InitLimits == Init /\ app = "plain" /\ ~DEBUG

NextLimits ==
  \/ \E c \in Clients : Arrive(c)
  \/ apiLimiter
  \/ chatLimiter({Body("hello")})
  \/ chatSimple({Env(Clock(10, 9), 35)})
  \/ Finish
  \/ Tick

SpecLimits == InitLimits /\ [][NextLimits]_vars

(***************************************************************************)
(* Subsets: each of the seven optional fields missing, empty or filled,    *)
(* independently of the others, under a message for every intent and       *)
(* sub-case                                                                *)
(***************************************************************************)
\* the bundle with every field filled
FilledBundle == CHOOSE b \in Bundles : b.user = User(Str("Asha"))

EmptyBundle ==
  [NoBody EXCEPT !.user = User(Undefined),
                 !.assignments = [k |-> "object", entries |-> <<>>],
                 !.timetable = Timetable(NoDays),
                 !.cgpa = [k |-> "array", list |-> <<>>],
                 !.calendarMarks = [k |-> "array", list |-> <<>>],
                 !.attendance = Attendance(Undefined, Undefined, Undefined, <<>>),
                 !.expenses = Expenses(Undefined, Undefined, <<>>)]

FullBundle ==
  [FilledBundle EXCEPT
     !.attendance = Attendance(Num(40), Num(28), Num(70),
                               <<Subject("Maths", 6, 10, 60), Subject("Physics", 22, 30, 73)>>),
     !.expenses = Expenses(Num(6500), Num(20000),
                           <<[cat |-> "Food", amt |-> 9000], [cat |-> "Travel", amt |-> 4000],
                             [cat |-> "Books", amt |-> 7000]>>)]

\* the field f missing, empty and filled
FieldChoices(f) == {NoBody[f], EmptyBundle[f], FullBundle[f]}

SubsetBundles ==
  {[NoBody EXCEPT !.user = u, !.assignments = a, !.timetable = t, !.cgpa = g,
                  !.calendarMarks = m, !.attendance = n, !.expenses = e] :
     u \in FieldChoices("user"), a \in FieldChoices("assignments"),
     t \in FieldChoices("timetable"), g \in FieldChoices("cgpa"),
     m \in FieldChoices("calendarMarks"), n \in FieldChoices("attendance"),
     e \in FieldChoices("expenses")}

SubsetMessages ==
  {"What is my name", "how much did I spend this month", "my expenses", "attendance",
   "attendance per subject", "which subject has the lowest attendance", "my grades",
   "list all grades", "show my progress", "any homework", "next exam",
   "how busy is my week", "classes today", "hello", "thanks", "ok"}

SubsetBodies == {[b EXCEPT !.message = Str(m)] : b \in SubsetBundles, m \in SubsetMessages}

NextSubsets ==
  \/ Request(SubsetBodies)
  \/ validateChat
  \/ chat({Env(Clock(10, 9), 34)})
  \/ chatSimple({Env(Clock(10, 9), 34)})
  \/ Finish

SpecSubsets == Init /\ [][NextSubsets]_vars

(***************************************************************************)
(* Two requests in the same process, one after the other or interleaved    *)
(***************************************************************************)
\* requests of several branches with and without data, requests the
\* sanitizers rewrite, one the validators reject and one that throws
PairBodies ==
  {[b EXCEPT !.message = Str(m)] :
     b \in {NoBody, FilledBundle},
     m \in {"hello", "thanks", "my attendance", "next exam"}}
    \cup {Body("<b>hey</b>"), Body("  thanks  "), Body(""),
          [Body("thanks") EXCEPT !.user = [NoUser EXCEPT !.k = "null"]]}

\* two hours of two days, the draw on either side of 0.35
PairEnvs == {Env(Clock(10, 9), 34), Env(Clock(10, 9), 35), Env(Clock(15, 23), 34)}

NextPair ==
  \/ Request(PairBodies)
  \/ validateChat
  \/ chat(PairEnvs)
  \/ chatSimple(PairEnvs)
  \/ Finish
  \/ PeerRequest(PairBodies)
  \/ PeerValidateChat
  \/ PeerChat(PairEnvs)
  \/ PeerChatSimple(PairEnvs)
  \/ PeerFinish

SpecPair == Init /\ [][NextPair]_vars

(***************************************************************************)
(* What the properties speak of                                            *)
(***************************************************************************)
\* the request passed validateChat and the handler's own type check
Validated == app = "secured" /\ errs = {} /\ IsStr(body.message)

\* the handler answered a validated request without raising an exception
Answered == pc = "responded" /\ Validated /\ res.intent # "ERROR"

\* the lowercased sanitized message of the request in hand
SanitizedMessage == sanitizeMessage(body.message.s)

LowerMessage == toLowerCase(SanitizedMessage)

\* the handler without validation answered the request without raising an
\* exception
PlainAnswered == pc = "responded" /\ app = "plain" /\ res.status = 200

\* its lowerMessage
PlainLowerMessage == toLowerCase(body.message.s)

\* the canonical order of the ten keyword groups
CanonicalOrder ==
  <<"NAME_QUERY", "EXPENSE_MONTHLY", "EXPENSE_INSIGHTS", "ATTENDANCE_INSIGHTS",
    "ACADEMIC_INSIGHTS", "ASSIGNMENT_PLANNING", "CALENDAR_MANAGEMENT",
    "TIMETABLE_ANALYSIS", "GREETING", "GRATITUDE">>

\* the keyword predicate of a group
PredicateOf(intent, m, sanitizedMessage) ==
  CASE intent = "NAME_QUERY" -> isNameQuery(m)
    [] intent = "EXPENSE_MONTHLY" -> isExpenseMonthly(m)
    [] intent = "EXPENSE_INSIGHTS" -> isExpenseInsights(m)
    [] intent = "ATTENDANCE_INSIGHTS" -> isAttendance(m)
    [] intent = "ACADEMIC_INSIGHTS" -> isAcademic(m)
    [] intent = "ASSIGNMENT_PLANNING" -> isAssignment(m)
    [] intent = "CALENDAR_MANAGEMENT" -> isCalendar(m)
    [] intent = "TIMETABLE_ANALYSIS" -> isTimetable(m)
    [] intent = "GREETING" -> isGreeting(m, sanitizedMessage)
    [] intent = "GRATITUDE" -> isGratitude(m)

\* the places in the canonical order whose predicate is true of the message
Hits ==
  LET sanitizedMessage == SanitizedMessage
      m == toLowerCase(sanitizedMessage)
  IN {i \in 1..Len(CanonicalOrder) : PredicateOf(CanonicalOrder[i], m, sanitizedMessage)}

ElevenIntents == {CanonicalOrder[i] : i \in 1..Len(CanonicalOrder)} \cup {"GUIDANCE"}

(***************************************************************************)
(* C1. For a validated request answered without exception, the intent is   *)
(* the first of the canonical order whose keyword predicate is true of the *)
(* lowercased sanitized message, and it is GUIDANCE if and only if none of *)
(* the ten predicates is true.                                             *)
(***************************************************************************)
FirstMatchWins ==
  Answered =>
    LET hits == Hits
    IN /\ (res.intent = "GUIDANCE") <=> (hits = {})
       /\ hits # {} => res.intent = CanonicalOrder[Least(hits)]

\* a message that sets off three groups or more, answered by the first of them,
\* which is not the first of the order
FirstMatchWinsWitness ==
  /\ Answered
  /\ LET hits == Hits
     IN /\ Cardinality(hits) >= 3
        /\ Least(hits) > 3
        /\ res.intent = CanonicalOrder[Least(hits)]

(***************************************************************************)
(* C2. A message that satisfies both the EXPENSE_MONTHLY and the           *)
(* EXPENSE_INSIGHTS predicate is never answered EXPENSE_INSIGHTS, and "how *)
(* much did I spend this month" is answered EXPENSE_MONTHLY, by the        *)
(* handler behind validateChat and by the handler without validation.      *)
(***************************************************************************)
MonthlyBeforeGeneral ==
  /\ pc = "responded" /\ Validated =>
       LET m == LowerMessage
       IN /\ isExpenseMonthly(m) /\ isExpenseInsights(m) => res.intent # "EXPENSE_INSIGHTS"
          /\ m = "how much did i spend this month" /\ res.intent # "ERROR"
               => res.intent = "EXPENSE_MONTHLY"
  /\ pc = "responded" /\ app = "plain" /\ IsStr(body.message) =>
       LET m == PlainLowerMessage
       IN /\ isExpenseMonthly(m) /\ isExpenseInsights(m) => res.intent # "EXPENSE_INSIGHTS"
          /\ m = "how much did i spend this month" /\ res.intent # "ERROR"
               => res.intent = "EXPENSE_MONTHLY"

MonthlyBeforeGeneralWitness ==
  /\ pc = "responded" /\ Validated
  /\ body.message = Str("How much did I spend this month")
  /\ isExpenseMonthly(LowerMessage) /\ isExpenseInsights(LowerMessage)
  /\ res.intent = "EXPENSE_MONTHLY"

(***************************************************************************)
(* C3. Every response carries one intent label; for a validated request    *)
(* answered without exception it is one of the eleven intents; the initial *)
(* value GENERAL_QUERY of the handler's variable is never returned.        *)
(***************************************************************************)
OneKnownIntent ==
  pc = "responded" =>
    /\ res.intent \in ElevenIntents \cup {"VALIDATION_ERROR", "ERROR"}
    /\ res.intent # "GENERAL_QUERY"
    /\ Answered => res.intent \in ElevenIntents
    /\ app = "secured" => (res.intent = "VALIDATION_ERROR" <=> ~Validated)

\* a message no keyword group claims: the closing else gives it its label
OneKnownIntentWitness ==
  /\ Answered
  /\ Hits = {}
  /\ res.intent = "GUIDANCE"

(***************************************************************************)
(* C10. A validated request whose message matches the name-query predicate *)
(* is answered NAME_QUERY with the reply "Your name is <name>. How can I   *)
(* help you today?", <name> being the first name supplied, or "there" when *)
(* none or an empty one is; the bundle, the clock and the draw change      *)
(* nothing of it.                                                          *)
(***************************************************************************)
SuppliedName ==
  IF body.user.k = "object" /\ IsStr(body.user.firstName) /\ body.user.firstName.s # ""
  THEN body.user.firstName.s ELSE "there"

EnvelopeComplete ==
  pc = "responded" /\ Validated /\ res.status = 200 =>
    /\ res.intent \in ElevenIntents
    /\ res.reply # ""
    /\ res.metadata.present

(***************************************************************************)
(* C5. An attendance, assignment, calendar or grade query whose dataset is *)
(* empty or absent (attendance omitted or totalHeld = 0, no assignments,   *)
(* no calendar marks, no semester records) gets that intent's "no data     *)
(* yet" reply, and nothing undefined is rendered.                          *)
(***************************************************************************)
\* the reply is `text`, with or without the name in front
Says(text) ==
  \/ res.reply = text
  \/ res.reply = SuppliedName \o ", " \o text

NoDataYet ==
  pc = "responded" /\ Validated /\ body.user.k # "null" =>
    /\ res.intent = "ATTENDANCE_INSIGHTS"
         /\ (body.attendance.k = "absent" \/ body.attendance.totalHeld = Num(0))
         => Says("No attendance records yet. Once classes start, I can help you track it.")
    /\ res.intent = "ASSIGNMENT_PLANNING" /\ assignmentsOf(body) = <<>>
         => Says("No pending assignments at the moment.")
    /\ res.intent = "CALENDAR_MANAGEMENT" /\ calendarMarksOf(body) = <<>>
         => Says("Your calendar is clear -- no dates marked yet.")
    /\ res.intent = "ACADEMIC_INSIGHTS" /\ cgpaOf(body) = <<>>
         => Says("No academic records yet. Add your semester grades and I can track your progress.")
    /\ res.intent \in {"ATTENDANCE_INSIGHTS", "ASSIGNMENT_PLANNING",
                       "CALENDAR_MANAGEMENT", "ACADEMIC_INSIGHTS"}
         => ~Includes(res.reply, "undefined")

(***************************************************************************)
(* C6. For an attendance record with held > 0 the number of classes needed *)
(* is max(0, ceil(held * 0.75) - attended), never negative, and the reply  *)
(* tells it only of a record whose percentage is below 75; held 40,        *)
(* attended 28, percentage 70 is told 2 more classes. Both handlers are    *)
(* held to it.                                                             *)
(***************************************************************************)
\* max(0, ceil(held * 3 / 4) - attended), in whole numbers
ClassesNeeded(held, attended) ==
  LET quota == (3 * held) \div 4 + (IF (3 * held) % 4 = 0 THEN 0 ELSE 1)
  IN IF quota > attended THEN quota - attended ELSE 0

NeedSentence(n) == " attend " \o ToString(n) \o " more classes to reach 75%."

\* the reply tells how many classes are needed
TellsNeed == Includes(res.reply, "more classes to reach 75%")

\* the reply is the overall summary of the record of the request
OverallSummary ==
  /\ res.intent = "ATTENDANCE_INSIGHTS"
  /\ IsNum(body.attendance.totalHeld) /\ body.attendance.totalHeld.n > 0
  /\ \/ Answered /\ ~isPerSubject(LowerMessage) /\ ~isLowestSubject(LowerMessage)
     \/ PlainAnswered

ClassesNeededWhenBelow ==
  (Answered \/ PlainAnswered) /\ res.intent = "ATTENDANCE_INSIGHTS" =>
    /\ ~Includes(res.reply, "attend -")
    /\ OverallSummary =>
         LET a == body.attendance
             below == IsNum(a.percentage) /\ a.percentage.n < 75
         IN /\ TellsNeed => /\ below
                            /\ IsNum(a.totalAttended)
                            /\ Includes(res.reply,
                                 NeedSentence(ClassesNeeded(a.totalHeld.n, a.totalAttended.n)))
            /\ below /\ IsNum(a.totalAttended)
                 /\ ClassesNeeded(a.totalHeld.n, a.totalAttended.n) > 0 => TellsNeed
    /\ ~OverallSummary /\ TellsNeed =>
         \E i \in 1..Len(body.attendance.subjects) :
           LET s == body.attendance.subjects[i]
           IN /\ s.held.n > 0
              /\ s.percentage.n < 75
              /\ Includes(res.reply, "Your lowest attendance is in " \o s.name \o " at "
                                       \o ToString(s.percentage.n) \o "% ")
              /\ Includes(res.reply, NeedSentence(ClassesNeeded(s.held.n, s.attended.n)))
    /\ body.attendance.totalHeld = Num(40) /\ body.attendance.totalAttended = Num(28)
         /\ body.attendance.percentage = Num(70) /\ OverallSummary
         => Includes(res.reply, NeedSentence(2))

\* held 40, attended 28, percentage 70: two more classes
ClassesNeededWitness ==
  /\ OverallSummary /\ app = "secured"
  /\ body.attendance.totalHeld = Num(40)
  /\ body.attendance.totalAttended = Num(28)
  /\ body.attendance.percentage = Num(70)
  /\ Includes(res.reply, "You'd need to attend 2 more classes to reach 75%.")

(***************************************************************************)
(* C7. For every timetable of seven days the weekly analysis has           *)
(* totalClasses equal to the sum over days 0..6 of the day's class count   *)
(* and daysWithClasses equal to the number of days with a class count      *)
(* above 0, the timetable without classes included. Both handlers compute  *)
(* it so and tell these totals.                                            *)
(***************************************************************************)
ClassCount(d) == Len(timetableOf(body)[d])

SumOfClassCounts ==
  ClassCount(0) + ClassCount(1) + ClassCount(2) + ClassCount(3) + ClassCount(4)
    + ClassCount(5) + ClassCount(6)

DaysHavingClasses == Cardinality({d \in 0..6 : ClassCount(d) > 0})

\* the reply is that of the workload sub-case
WorkloadReply ==
  /\ Answered
  /\ res.intent = "TIMETABLE_ANALYSIS"
  /\ isWorkload(LowerMessage) /\ ~isBusiestDay(LowerMessage)

\* the reply of the handler without validation is that of its week sub-case
PlainWeekReply ==
  /\ PlainAnswered
  /\ res.intent = "TIMETABLE_ANALYSIS"
  /\ LET m == PlainLowerMessage
     IN /\ Includes(m, "week")
        /\ ~IncludesAny(m, {"tomorrow", "today", "free", "which day", "busiest",
                            "most busy"})
        /\ specificDay(m) = NullDay

WeeklyTotals ==
  pc # "idle" =>
    /\ analyzeWeeklyPattern(timetableOf(body)).totalClasses = SumOfClassCounts
    /\ analyzeWeeklyPattern(timetableOf(body)).daysWithClasses = DaysHavingClasses
    /\ WorkloadReply =>
         IF SumOfClassCounts = 0
         THEN Says("No classes scheduled this week -- you're completely free.")
         ELSE Includes(res.reply,
                "You have " \o ToString(SumOfClassCounts) \o " classes across "
                  \o ToString(DaysHavingClasses) \o " days this week.")
    /\ PlainWeekReply =>
         IF SumOfClassCounts = 0
         THEN res.reply = SuppliedName \o ", No classes scheduled this week."
         ELSE IF IncludesAny(PlainLowerMessage, {"packed", "busy"})
         THEN Includes(res.reply,
                "your week includes " \o ToString(SumOfClassCounts)
                  \o " classes spread across " \o ToString(DaysHavingClasses) \o " days.")
         ELSE Includes(res.reply,
                "Total: " \o ToString(SumOfClassCounts) \o " classes across "
                  \o ToString(DaysHavingClasses) \o " days")

\* a week of days with two classes, with one and with none
WeeklyTotalsWitness ==
  /\ WorkloadReply
  /\ \E d \in 0..6 : ClassCount(d) = 0
  /\ \E d \in 0..6 : ClassCount(d) = 1
  /\ \E d \in 0..6 : ClassCount(d) = 2
  /\ SumOfClassCounts > DaysHavingClasses
  /\ Includes(res.reply, "You have " \o ToString(SumOfClassCounts) \o " classes across "
                           \o ToString(DaysHavingClasses) \o " days this week.")

(***************************************************************************)
(* C8. In a trend query over more than one semester the trend told is the  *)
(* one of five bands that d = latest - first falls in: strong improvement  *)
(* if d > 0.3, slight improvement if 0 < d <= 0.3, significant drop if     *)
(* d < -0.3, slight decline if -0.3 <= d < 0, stable if d = 0. It is       *)
(* stated of scores above 0, which the handler reads as scores.            *)
(***************************************************************************)
\* the first key present among sgpa, gpa, score
ScoreOf(sem) ==
  IF sem.sgpa # Undefined THEN sem.sgpa
  ELSE IF sem.gpa # Undefined THEN sem.gpa ELSE sem.score

Semesters == cgpaOf(body)

\* the academic branch is the one that answers the message
AcademicQuery ==
  /\ pc = "responded" /\ Validated
  /\ Hits # {} /\ CanonicalOrder[Least(Hits)] = "ACADEMIC_INSIGHTS"

TrendQuery == AcademicQuery /\ ~isListGrades(LowerMessage) /\ isTrend(LowerMessage)

Bands ==
  {"strong improvement", "slight improvement", "significant drop", "slight decline",
   "stable"}

\* the band of a difference of d hundredths
BandOf(d) ==
  IF d > 30 THEN "strong improvement"
  ELSE IF d > 0 THEN "slight improvement"
  ELSE IF d < -30 THEN "significant drop"
  ELSE IF d < 0 THEN "slight decline"
  ELSE "stable"

TrendBands ==
  TrendQuery /\ Len(Semesters) > 1
    /\ (\A i \in 1..Len(Semesters) :
          IsNum(ScoreOf(Semesters[i])) /\ ScoreOf(Semesters[i]).n > 0) =>
      LET d == ScoreOf(Semesters[Len(Semesters)]).n - ScoreOf(Semesters[1]).n
      IN \A band \in Bands : Includes(res.reply, band) <=> band = BandOf(d)

(***************************************************************************)
(* C9. For a grade sequence of one semester the reply of every academic    *)
(* sub-case (list, trend, default) tells that one score, tells no trend    *)
(* band and no overall CGPA.                                               *)
(***************************************************************************)
SingleScore ==
  AcademicQuery /\ Len(Semesters) = 1 /\ IsNum(ScoreOf(Semesters[1])) =>
    /\ Includes(res.reply, Fixed2(ScoreOf(Semesters[1]).n))
    /\ \A band \in Bands : ~Includes(res.reply, band)
    /\ ~Includes(res.reply, "CGPA")

(***************************************************************************)
(* C11. A request whose message is the empty string and whose user object  *)
(* is empty is answered GREETING, the greeting being that of the hour      *)
(* (Good morning before 12, Good afternoon before 17, Good evening         *)
(* otherwise), with the name "there" when the draw includes the name.      *)
(***************************************************************************)
GreetingOfHour(hour) ==
  IF hour < 12 THEN "Good morning"
  ELSE IF hour < 17 THEN "Good afternoon" ELSE "Good evening"

EmptyMessageGreeted ==
  pc = "responded" /\ body.message = Str("") /\ body.user = User(Undefined) =>
    /\ res.intent = "GREETING"
    /\ \/ Includes(res.reply, GreetingOfHour(getHours(env.now)) \o ", there.")
       \/ Includes(res.reply, GreetingOfHour(getHours(env.now)) \o ".")

(***************************************************************************)
(* C12. The same request (the same bundle and the same message) processed  *)
(* twice with the same draw and the same clock reading gets the same       *)
(* intent and the same reply: nothing the handler did for the first call   *)
(* changes the second.                                                     *)
(***************************************************************************)
\* both requests are answered, and they are the same request in the same
\* surroundings
SameRequestTwice ==
  /\ pc = "responded" /\ peer.pc = "responded"
  /\ peer.posted = posted
  /\ peer.env = env

AloneResponse(p, e) ==
  IF app = "secured"
  THEN chatResponse(sanitizedBody(p), validationErrors(p), DEBUG, e.now, e.today, e.rnd)
  ELSE chatSimpleResponse(p, DEBUG, e.now, e.today)

NullUserRaises ==
  /\ body.user.k = "null"
  /\ IF app = "secured" THEN Validated ELSE IsStr(body.message) /\ body.message.s # ""

GenericApology ==
  IF app = "secured" THEN "Something went wrong. Could you try that again?"
  ELSE "Unable to process your request. Please try again."

ExceptionsCaught ==
  pc = "responded" =>
    /\ NullUserRaises => res.status = 500
    /\ res.status = 500 =>
         /\ res.intent = "ERROR"
         /\ res.reply = GenericApology
         /\ ~res.metadata.present /\ res.errors = {}
         /\ IF DEBUG THEN IsStr(res.error) ELSE res.error = Undefined
    /\ app = "secured" /\ ~DEBUG => res.error = Undefined /\ res.errors = {}
    /\ app = "secured" /\ res.intent = "ERROR" => res.status = 500

\* in production mode the TypeError of a null user is answered without its
\* message
ExceptionsCaughtWitness ==
  /\ pc = "responded" /\ app = "secured" /\ ~DEBUG
  /\ NullUserRaises
  /\ res.intent = "ERROR"
  /\ res.reply = "Something went wrong. Could you try that again?"
  /\ res.error = Undefined

(***************************************************************************)
(* C14. A malformed request (a message that is missing or not a string, a  *)
(* bundle of the wrong structure) is answered with the GUIDANCE fallback   *)
(* reply, not with a failure response.                                     *)
(***************************************************************************)
\* the posted body p is malformed
Malformed(p) ==
  \/ ~IsStr(p.message)
  \/ p.user.k \in {"null", "badtype"}
  \/ \E f \in {"assignments", "timetable", "cgpa", "calendarMarks", "attendance",
                "expenses"} : p[f].k = "badtype"

MalformedGetsGuidance ==
  pc = "responded" /\ Malformed(posted) =>
    /\ res.status = 200
    /\ res.intent = "GUIDANCE"

(***************************************************************************)
(* C15. A request that passes validation is answered with a classified     *)
(* reply of status 200 and never with the ERROR response, whichever of the *)
(* optional fields user, assignments, timetable, cgpa, calendarMarks,      *)
(* attendance and expenses are missing or empty and whichever intent the   *)
(* message selects.                                                        *)
(***************************************************************************)
\* every optional field of the posted body is missing, empty or well-formed
MissingOrEmptyOrFull ==
  \A f \in {"user", "assignments", "timetable", "cgpa", "calendarMarks", "attendance",
            "expenses"} : posted[f] \in FieldChoices(f)

Unaddressed == chatResponse(body, errs, DEBUG, env.now, env.today, 99)

\* the greeting with the name after its first words
GreetingNamed(text, hello, userName) ==
  hello \o ", " \o userName \o SubSeq(text, Len(hello) + 1, Len(text))

NameAsDrawn ==
  Answered =>
    LET base == Unaddressed
    IN /\ res.status = base.status
       /\ res.intent = base.intent
       /\ res.metadata = base.metadata
       /\ IF res.intent = "GREETING"
          THEN res.reply = IF env.rnd < 50
                           THEN GreetingNamed(base.reply, GreetingOfHour(getHours(env.now)),
                                              SuppliedName)
                           ELSE base.reply
          ELSE /\ ~(env.rnd < 35) => res.reply = base.reply
               /\ env.rnd < 35 =>
                    \/ res.reply = base.reply
                    \/ res.reply = SuppliedName \o ", " \o base.reply
               /\ env.rnd < 35 /\ res.intent = "GRATITUDE" =>
                    res.reply = SuppliedName
                                  \o ", Happy to help. Let me know if you need anything else."
               /\ env.rnd < 35 /\ res.intent = "GUIDANCE" =>
                    /\ res.reply = SuppliedName \o ", " \o base.reply
                    /\ SubSeq(base.reply, 1, 10) = "I can help"

\* the placeholder name in front of a reply
NameAsDrawnWitness ==
  /\ Answered
  /\ body.user.k = "absent"
  /\ env.rnd < 35
  /\ res.intent = "GRATITUDE"
  /\ res.reply = "there, Happy to help. Let me know if you need anything else."

(***************************************************************************)
(* C18. In the weekly analysis the busiest day is the first day, in the    *)
(* scan of days 0..6, among those with the greatest class count; the       *)
(* lightest day is the first among those with the least count above zero;  *)
(* both are null if and only if no day has a class. A busiest-day query    *)
(* names a day whenever the week has a class.                              *)
(***************************************************************************)
GreatestCount == Greatest({ClassCount(d) : d \in 0..6})

LeastCountAboveZero == Least({ClassCount(d) : d \in {e \in 0..6 : ClassCount(e) > 0}})

\* the reply is that of the busiest-day sub-case
BusiestDayReply ==
  /\ Answered
  /\ res.intent = "TIMETABLE_ANALYSIS"
  /\ isBusiestDay(LowerMessage)

FirstBusiestAndLightest ==
  pc # "idle" =>
    LET analysis == analyzeWeeklyPattern(timetableOf(body))
    IN /\ (analysis.busiestDay.day = NullDay) <=> (SumOfClassCounts = 0)
       /\ (analysis.lightestDay.day = NullDay) <=> (SumOfClassCounts = 0)
       /\ SumOfClassCounts > 0 =>
            /\ analysis.busiestDay.count = GreatestCount
            /\ analysis.busiestDay.day = Least({d \in 0..6 : ClassCount(d) = GreatestCount})
            /\ analysis.lightestDay.count = LeastCountAboveZero
            /\ analysis.lightestDay.day
                 = Least({d \in 0..6 : ClassCount(d) = LeastCountAboveZero})
       /\ BusiestDayReply =>
            IF SumOfClassCounts > 0
            THEN Says("Your busiest day is "
                        \o getDayName(Least({d \in 0..6 : ClassCount(d) = GreatestCount}))
                        \o " with " \o ToString(GreatestCount) \o " classes.")
            ELSE Says("No classes scheduled this week.")

\* Wednesday and Friday share the greatest count, Tuesday and Thursday the
\* least one above zero: Wednesday is named
FirstBusiestAndLightestWitness ==
  /\ BusiestDayReply
  /\ ClassCount(0) = 0 /\ ClassCount(1) = 1 /\ ClassCount(2) = 2 /\ ClassCount(3) = 1
  /\ ClassCount(4) = 2
  /\ analyzeWeeklyPattern(timetableOf(body)).lightestDay.day = 1
  /\ Says("Your busiest day is Wednesday with 2 classes.")

(***************************************************************************)
(* C19. An overall attendance summary of a record with data holds exactly  *)
(* one of three tone sentences, chosen by the percentage: the one for      *)
(* below the threshold when percentage < 75, the acceptable one when       *)
(* 75 <= percentage < 85, the good one when percentage >= 85. The good     *)
(* tone is never given to a record whose percentage is not a number of 85  *)
(* or more. Both handlers are held to it.                                  *)
(***************************************************************************)
ToneBelow ==
  Includes(res.reply, IF app = "secured" THEN "This is below the 75% threshold"
                      ELSE "This is below the recommended threshold of 75%.")

ToneAcceptable ==
  Includes(res.reply, IF app = "secured" THEN "It's acceptable, though there's room to improve."
                      ELSE "This is acceptable, but could be improved")

ToneGood ==
  Includes(res.reply, IF app = "secured" THEN "You're maintaining good attendance"
                      ELSE "This is at a good level for academic requirements.")

ToneBands ==
  OverallSummary =>
    LET p == body.attendance.percentage
    IN /\ Cardinality({t \in {"below", "acceptable", "good"} :
                         CASE t = "below" -> ToneBelow
                           [] t = "acceptable" -> ToneAcceptable
                           [] t = "good" -> ToneGood}) = 1
       /\ ToneBelow <=> (IsNum(p) /\ p.n < 75)
       /\ ToneAcceptable <=> (IsNum(p) /\ p.n >= 75 /\ p.n < 85)
       /\ ToneGood <=> (IsNum(p) /\ p.n >= 85)

(***************************************************************************)
(* C20. An attendance query over a record with data is answered by exactly *)
(* one of three replies, taken in this order: the per-subject breakdown    *)
(* when the message holds a per-subject phrase, even if it holds a         *)
(* lowest-subject phrase too; else the lowest-subject reply when it holds  *)
(* a lowest-subject phrase; else the overall summary.                      *)
(***************************************************************************)
PerSubjectReply ==
  \/ Includes(res.reply, "Here's your attendance by subject:")
  \/ Includes(res.reply, "No subject-wise attendance data available.")

LowestSubjectReply ==
  \/ Includes(res.reply, "No subject-wise data available.")
  \/ Includes(res.reply, "Your lowest attendance is in ")
  \/ Includes(res.reply, "All your subjects are above 75% attendance.")

OverallReply == Includes(res.reply, "Your attendance is at ")

\* an attendance query over a record with classes held, answered
AttendanceWithData ==
  /\ Answered
  /\ res.intent = "ATTENDANCE_INSIGHTS"
  /\ IsNum(body.attendance.totalHeld) /\ body.attendance.totalHeld.n > 0

SubCaseInOrder ==
  AttendanceWithData =>
    LET m == LowerMessage
    IN /\ PerSubjectReply <=> isPerSubject(m)
       /\ LowestSubjectReply <=> (~isPerSubject(m) /\ isLowestSubject(m))
       /\ OverallReply <=> (~isPerSubject(m) /\ ~isLowestSubject(m))

\* a message with a phrase of either kind gets the breakdown
SubCaseInOrderWitness ==
  /\ AttendanceWithData
  /\ isPerSubject(LowerMessage) /\ isLowestSubject(LowerMessage)
  /\ Len(body.attendance.subjects) = 2
  /\ Includes(res.reply, "Here's your attendance by subject:")
  /\ ~LowestSubjectReply /\ ~OverallReply

(***************************************************************************)
(* C21. The score of a semester is the value of the first key present      *)
(* among sgpa, gpa and score, a value of 0 included, and it is the score   *)
(* told wherever a score is read: in the listing, in the trend and in the  *)
(* latest grade, by either handler.                                        *)
(***************************************************************************)
\* the handler without validation takes the message for a grade query
PlainAcademicQuery ==
  /\ pc = "responded" /\ app = "plain"
  /\ IsStr(body.message) /\ body.message.s # ""
  /\ intentOfSimple(PlainLowerMessage) = "ACADEMIC_INSIGHTS"

FirstPresentScore ==
  (AcademicQuery \/ PlainAcademicQuery) /\ Len(Semesters) > 0
    /\ (\A i \in 1..Len(Semesters) : IsNum(ScoreOf(Semesters[i]))) =>
      /\ res.status = 200
      /\ IF app = "secured" /\ isListGrades(LowerMessage)
         THEN \A i \in 1..Len(Semesters) :
                Includes(res.reply, ToString(i) \o ". " \o semesterName(Semesters[i], i)
                                      \o ": " \o Fixed2(ScoreOf(Semesters[i]).n))
         ELSE Includes(res.reply, " " \o Fixed2(ScoreOf(Semesters[Len(Semesters)]).n))

(***************************************************************************)
(* C22. An EXPENSE_INSIGHTS reply over a record with categories lists      *)
(* exactly min(2, number of categories) of them, those of the largest      *)
(* amounts, in descending order of amount, each with its share of the      *)
(* total in percent; the share told is 0 when the total is 0. Both         *)
(* handlers are held to it.                                                *)
(***************************************************************************)
Categories == expensesOf(body).categories.list

TotalSpent == Or(expensesOf(body).total, Num(0)).n

\* the share of amt in the total, in percent with one decimal, halves up
ShareOfTotal(amt) ==
  IF TotalSpent = 0 THEN "0"
  ELSE LET tenths == (2000 * amt + TotalSpent) \div (2 * TotalSpent)
       IN ToString(tenths \div 10) \o "." \o ToString(tenths % 10)

\* the line of the listing for category i
CategoryLine(i) ==
  "* " \o Categories[i].cat \o ": Rs" \o ToString(Categories[i].amt) \o ".00 ("
    \o ShareOfTotal(Categories[i].amt)
    \o (IF app = "secured" THEN "% of total)" ELSE "%)")

\* the listing of the categories at the places `places`, in that order
CategoryListing(places) ==
  LET sep == IF app = "secured" THEN " " ELSE "\n"
      head == IF app = "secured" THEN "Your main spending areas:"
              ELSE "Primary spending categories:"
  IN head \o sep \o CategoryLine(places[1])
       \o (IF Len(places) > 1 THEN sep \o CategoryLine(places[2]) ELSE "")

EndsWith(text, tail) ==
  Len(text) >= Len(tail) /\ SubSeq(text, Len(text) - Len(tail) + 1, Len(text)) = tail

\* the sequences of min(2, n) distinct places whose amounts descend and are not
\* below any amount left out
TopPlaces ==
  LET n == Len(Categories)
  IN {places \in SeqsUpTo(1..n, 2) :
        /\ Len(places) = (IF n < 2 THEN n ELSE 2)
        /\ \A i, j \in 1..Len(places) : places[i] = places[j] => i = j
        /\ \A i \in 1..(Len(places) - 1) :
             Categories[places[i]].amt >= Categories[places[i + 1]].amt
        /\ \A k \in 1..n :
             (\A i \in 1..Len(places) : places[i] # k) =>
               \A i \in 1..Len(places) : Categories[places[i]].amt >= Categories[k].amt}

\* an expense query over a record with categories, answered
ExpensesWithCategories ==
  /\ Answered \/ PlainAnswered
  /\ res.intent = "EXPENSE_INSIGHTS"
  /\ Len(Categories) > 0

TopTwoCategories ==
  ExpensesWithCategories =>
    \E places \in TopPlaces : EndsWith(res.reply, CategoryListing(places))

\* three categories, two of them tied for the second place, under a total of 0
TopTwoCategoriesWitness ==
  /\ ExpensesWithCategories /\ app = "secured"
  /\ Len(Categories) = 3
  /\ Categories[1].amt = 4000 /\ Categories[2].amt = 9000 /\ Categories[3].amt = 4000
  /\ body.expenses.total = Num(0)
  /\ EndsWith(res.reply,
       "* " \o Categories[2].cat \o ": Rs9000.00 (0% of total) * "
         \o Categories[1].cat \o ": Rs4000.00 (0% of total)")

(***************************************************************************)
(* C23. In a 'this week' assignment query a due date is listed exactly     *)
(* when it is 0 to 7 days ahead: today's is listed, yesterday's is not,    *)
(* the one 7 calendar days ahead is, the one 8 days ahead is not; when no  *)
(* date is in the window the reply says that nothing is due this week.     *)
(* Both handlers are held to it, at every hour of the day.                 *)
(***************************************************************************)
DueEntries == assignmentsOf(body)

\* the day of the month of a date string and of the clock reading
DayOfDate(date) == 10 * DigitVal(CharAt(date, 9)) + DigitVal(CharAt(date, 10))

DayOfClock == env.now \div HoursPerDay + 1

\* whole calendar days from the day of the request to the date
DaysAhead(date) == DayOfDate(date) - DayOfClock

Pending == \E i \in 1..Len(DueEntries) : DueEntries[i].count.n > 0

\* an assignment query with something pending, answered
AssignmentQuery ==
  /\ Answered \/ PlainAnswered
  /\ res.intent = "ASSIGNMENT_PLANNING"
  /\ Pending

ThisWeekQuery == AssignmentQuery /\ Includes(body.message.s, "week")

NothingDueReply ==
  IF app = "secured" THEN "Nothing due this week -- a good time to get ahead."
  ELSE "No assignments due this week."

DueThisWeek ==
  ThisWeekQuery =>
    /\ \A i \in 1..Len(DueEntries) :
         Includes(res.reply, "* " \o DueEntries[i].date \o ": ")
           <=> DaysAhead(DueEntries[i].date) \in 0..7
    /\ (\A i \in 1..Len(DueEntries) : DaysAhead(DueEntries[i].date) \notin 0..7)
         <=> Includes(res.reply, NothingDueReply)

\* late in the evening, with yesterday, today and the day 8 days ahead due
DueThisWeekWitness ==
  /\ ThisWeekQuery /\ getHours(env.now) = 23
  /\ {DueEntries[i].date : i \in 1..Len(DueEntries)} = {IsoDate(9), IsoDate(10), IsoDate(18)}
  /\ Includes(res.reply, "* " \o IsoDate(10) \o ": ")
  /\ ~Includes(res.reply, IsoDate(9)) /\ ~Includes(res.reply, IsoDate(18))

(***************************************************************************)
(* C29. In an assignment query with something pending, the next or nearest *)
(* deadline reported is the earliest due date that is not before today and *)
(* has at least one assignment: no other date of the map is in the reply.  *)
(***************************************************************************)
NextOrNearestQuery == AssignmentQuery /\ ~Includes(body.message.s, "week")

\* the entries not before today with at least one assignment
Upcoming ==
  {i \in 1..Len(DueEntries) :
     DaysAhead(DueEntries[i].date) >= 0 /\ DueEntries[i].count.n > 0}

NextDeadlineUpcoming ==
  NextOrNearestQuery =>
    \A i \in 1..Len(DueEntries) :
      Includes(res.reply, DueEntries[i].date) =>
        /\ i \in Upcoming
        /\ \A j \in Upcoming : DayOfDate(DueEntries[i].date) <= DayOfDate(DueEntries[j].date)

(***************************************************************************)
(* C24. In every calendar query the marks told of are the future ones, a   *)
(* mark being future when its date is valid and not before today: a query  *)
(* for the next holiday, exam or marked date tells the earliest future     *)
(* mark of the kind and no other, a listing tells every future mark in     *)
(* ascending order, and no mark before today is told of. Both handlers are *)
(* held to it.                                                             *)
(***************************************************************************)
Marks == calendarMarksOf(body)

FutureMark(i) ==
  IsNum(DateParse(Marks[i].date.s)) /\ DaysAhead(Marks[i].date.s) >= 0

\* the mark is of the kind the message asks for
OfKindAsked(i) ==
  LET category == toLowerCase(Marks[i].categoryName.s)
  IN IF Includes(body.message.s, "holiday")
     THEN IncludesAny(category, {"holiday", "break", "vacation"})
     ELSE IF Includes(body.message.s, "exam")
     THEN IncludesAny(category, {"exam", "test"})
     ELSE TRUE

Wanted == {i \in 1..Len(Marks) : FutureMark(i) /\ OfKindAsked(i)}

\* the query asks for one date, the next of its kind
AsksForNext == IncludesAny(body.message.s, {"holiday", "exam", "next", "upcoming"})

\* a comes before b in the reply
ToldBefore(a, b) ==
  \E k \in 1..Len(res.reply) :
    Includes(SubSeq(res.reply, 1, k), a) /\ ~Includes(SubSeq(res.reply, 1, k), b)

CalendarQuery ==
  /\ Answered \/ PlainAnswered
  /\ res.intent = "CALENDAR_MANAGEMENT"
  /\ Len(Marks) > 0

EarliestFutureMark ==
  CalendarQuery =>
    /\ \A i \in 1..Len(Marks) :
         Includes(res.reply, Marks[i].date.s)
           <=> /\ i \in Wanted
               /\ AsksForNext =>
                    \A j \in Wanted : DaysAhead(Marks[i].date.s) <= DaysAhead(Marks[j].date.s)
    /\ \A i, j \in Wanted :
         ~AsksForNext /\ DaysAhead(Marks[i].date.s) < DaysAhead(Marks[j].date.s)
           => ToldBefore(Marks[i].date.s, Marks[j].date.s)

\* the same of the handler behind the validation alone
EarliestFutureMarkSecured == app = "secured" => EarliestFutureMark

(***************************************************************************)
(* C25. The reply to a query for the weekly schedule, the attendance by    *)
(* subject, the dates of the calendar or the grades of every semester is a *)
(* list: each of its entries is in the reply and no two of them are on one *)
(* line, that is, joined by spaces rather than by a line break.            *)
(***************************************************************************)
RECURSIVE LinesFrom(_, _)
\* the lines of text from index i on
LinesFrom(text, i) ==
  IF i > Len(text) + 1 THEN {}
  ELSE LET stop == IndexOfChar(text, i, "\n")
       IN {SubSeq(text, i, stop - 1)} \cup LinesFrom(text, stop + 1)

\* what marks each entry of the list asked for
ListEntries ==
  CASE res.intent = "TIMETABLE_ANALYSIS" -> {DAYS[i] \o ":" : i \in 1..7}
                                             \cup {DAYS[i] \o " (today):" : i \in 1..7}
    [] res.intent = "ATTENDANCE_INSIGHTS" ->
         {" " \o attendanceOf(body).subjects[i].name \o ": " :
            i \in 1..Len(attendanceOf(body).subjects)}
    [] res.intent = "CALENDAR_MANAGEMENT" ->
         {calendarMarksOf(body)[i].date.s : i \in 1..Len(calendarMarksOf(body))}
    [] res.intent = "ACADEMIC_INSIGHTS" ->
         {ToString(i) \o ". " \o semesterName(cgpaOf(body)[i], i) \o ": " :
            i \in 1..Len(cgpaOf(body))}
    [] OTHER -> {}

\* the entries of the list that are in the reply
EntriesTold == {e \in ListEntries : Includes(res.reply, e)}

\* a query for one of the four lists, answered with more than one entry
ListQuery ==
  /\ Answered
  /\ body.message.s \in {"my weekly timetable", "my attendance by subject", "my calendar",
                         "list all my grades"}
  /\ Cardinality(EntriesTold) > 1

EntriesOnLinesOfTheirOwn ==
  \A line \in LinesFrom(res.reply, 1) :
    Cardinality({e \in EntriesTold : Includes(line, e)}) <= 1

ListForm == ListQuery => EntriesOnLinesOfTheirOwn

\* the same of the lists other than the weekly schedule
ListFormButWeekly == ListQuery /\ res.intent # "TIMETABLE_ANALYSIS" => EntriesOnLinesOfTheirOwn

(***************************************************************************)
(* C28. A reply that tells the user to attend N more classes to reach 75%, *)
(* in the overall summary or of the lowest subject, has N of 1 or more,    *)
(* whatever the percentage stated with the counts.                         *)
(***************************************************************************)
\* the reply tells of classes to attend
TellsNeeded ==
  /\ Answered /\ res.intent = "ATTENDANCE_INSIGHTS"
  /\ Includes(res.reply, "need to attend ")

\* ... and of this many
TellsNeededOf(n) ==
  Includes(res.reply, "need to attend " \o ToString(n) \o " more classes to reach 75%.")

NeededAtLeastOne ==
  TellsNeeded => \E n \in 1..(3 * 40) : TellsNeededOf(n)

\* the same of the overall summary alone
NeededAtLeastOneOverall ==
  TellsNeeded /\ Includes(res.reply, "You'd need to attend ") =>
    \E n \in 1..(3 * 40) : TellsNeededOf(n)

(***************************************************************************)
(* C27. Within one request every date computation uses the clock reading   *)
(* taken at the start of processing: the response is the one the same      *)
(* request gets when the clock stands still during handling, even when     *)
(* the wall clock passes midnight meanwhile.                               *)
(***************************************************************************)
\* the request was handled behind the validation, the clock moving or not
HandledByClock == pc = "responded" /\ Validated

\* the response were every reading of the clock the one taken at the start
StandingClockResponse == chatResponse(body, errs, DEBUG, env.now, env.now, env.rnd)

SingleClockReading == HandledByClock => res = StandingClockResponse

\* the same of every query but the calendar's
SingleClockReadingButCalendar ==
  HandledByClock /\ res.intent # "CALENDAR_MANAGEMENT" => res = StandingClockResponse

(***************************************************************************)
(* C30. Each of the eleven intents is reachable: for every one of them     *)
(* there is a valid message to which the handler behind the validation     *)
(* returns it; no keyword group is shadowed by the groups tried before it. *)
(***************************************************************************)
\* the messages tried: the words of the vocabulary and one phrase of two
MessagesTried == Words \cup {"spend this month"}

\* the intent the cascade gives the message m once sanitized
IntentReturnedTo(m) == intentOf(toLowerCase(sanitizeMessage(m)), sanitizeMessage(m))

\* the intents returned to the messages tried that pass the validation
IntentsReturned ==
  {IntentReturnedTo(m) : m \in {v \in MessagesTried : validationErrors(Body(v)) = {}}}

\* whatever request has been answered, of either deployment
EveryIntentReachable == pc = "responded" => ElevenIntents \subseteq IntentsReturned

\* thanks are told from a greeting by the handler
EveryIntentReachableWitness ==
  /\ Answered /\ res.intent = "GRATITUDE"
  /\ body.message.s = "thanks"
  /\ IntentReturnedTo(body.message.s) = res.intent

(***************************************************************************)
(* C26. Of each client and each of its 5-minute windows at most 30         *)
(* requests to /chat reach the chat handler; a further one in the window   *)
(* is answered 429 with the code RATE_LIMIT_CHAT and does not reach the    *)
(* handler; the count starts again when the window has ended; and the      *)
(* global limiter is applied to every request before the chat limiter.     *)
(***************************************************************************)
\* the request in hand has been answered, by a limiter or by the handler
LimitedRequestAnswered == pc = "responded" /\ limits.ip \in Clients

\* ... by a limiter, with this code, the handler not having been reached
TurnedAway(code) ==
  /\ res.status = 429
  /\ limits.outcome = code
  /\ res.intent = "" /\ body = NoBody

\* the global limiter has counted more than its maximum for the client
OverGlobalLimit == limits.api[limits.ip].hits > ApiMax

AtMostThirtyHandled == \A c \in Clients : limits.handled[c] <= ChatMax

\* the claim as it stands: the further request is turned away by the chat limiter
ChatLimitPerWindow ==
  /\ AtMostThirtyHandled
  /\ LimitedRequestAnswered /\ limits.before = ChatMax => TurnedAway("RATE_LIMIT_CHAT")
  /\ LimitedRequestAnswered /\ limits.before < ChatMax /\ ~OverGlobalLimit =>
       limits.outcome = "handler" /\ res.status = 200
  /\ LimitedRequestAnswered /\ OverGlobalLimit => TurnedAway("RATE_LIMIT_GLOBAL")

\* the further request is turned away by the chat limiter unless the global
\* limiter, which comes first, has turned it away already
ChatLimitBehindGlobal ==
  /\ AtMostThirtyHandled
  /\ LimitedRequestAnswered /\ limits.before = ChatMax /\ ~OverGlobalLimit =>
       TurnedAway("RATE_LIMIT_CHAT")
  /\ LimitedRequestAnswered /\ limits.before < ChatMax /\ ~OverGlobalLimit =>
       limits.outcome = "handler" /\ res.status = 200
  /\ LimitedRequestAnswered /\ OverGlobalLimit => TurnedAway("RATE_LIMIT_GLOBAL")

\* the frequent client is turned away in its second window, the count having
\* started again, the other client having been served
ChatLimitBehindGlobalWitness ==
  /\ LimitedRequestAnswered /\ limits.ip = FrequentClient
  /\ TurnedAway("RATE_LIMIT_CHAT")
  /\ limits.windows[FrequentClient] = 2
  /\ limits.handled[FrequentClient] = ChatMax
  /\ \E c \in Clients \ {FrequentClient} : limits.handled[c] = 1

====
